---- MODULE Spec2Model ----
(***************************************************************************)
(* A model of the data scripts of the basketball statistics site:          *)
(* peer ranking (update-team-stats.py), player-season merging              *)
(* (fetch_playerstats_complete.py), team/opponent name normalization       *)
(* (fetch_rankings.py, update-basketball-data.py,                          *)
(* update-schedule-results.py), schedule/API game matching, game-log       *)
(* assembly (fetch_gamelog_complete.py), JSON persistence, the updaters of *)
(* update.json and 2025-schedule.json, the mains of the fetch scripts      *)
(* with the outcomes of their requests, the processing of the rankings and *)
(* schedule responses (fetch_rankings.py, fetch_schedule.py), and the      *)
(* schedule file over several runs of the scripts that write it.           *)
(*                                                                         *)
(* Conventions.  A Python value that may be None is a sequence of length   *)
(* at most one: <<>> is None and <<x>> is the value x.  A dict is a        *)
(* function; a key the dict lacks is outside its DOMAIN.  A string that    *)
(* the code inspects character by character is a sequence of one-character *)
(* strings.  Every script is a separate program, so each has its own       *)
(* specification over the shared variables; the variables of the other     *)
(* scripts stay idle.                                                      *)
(***************************************************************************)
EXTENDS Integers, Sequences, FiniteSets, TLC

VARIABLES rk, ms, nm, mt, ps, gl, up, ft, pl, sc, rn

vars == <<rk, ms, nm, mt, ps, gl, up, ft, pl, sc, rn>>

\* The state of a script that is not running.
Idle == [pc |-> "idle"]

None == <<>>

Some(x) == <<x>>

IsNone(v) == Len(v) = 0

Val(v) == v[1]

(***************************************************************************)
(* Generic sequence helpers (Python list built-ins).                       *)
(***************************************************************************)
RECURSIVE SeqsUpTo(_, _)
\* All sequences over S of length 0..n.
SeqsUpTo(S, n) ==
  IF n = 0 THEN {<<>>}
  ELSE LET shorter == SeqsUpTo(S, n - 1)
       IN shorter \cup {Append(s, x) : s \in {t \in shorter : Len(t) = n - 1}, x \in S}

Reverse(seq) == [i \in 1..Len(seq) |-> seq[Len(seq) + 1 - i]]

RECURSIVE InsertSorted(_, _)
\* x inserted into the ascending sequence s, after its equals (stable).
InsertSorted(s, x) ==
  IF s = <<>> THEN <<x>>
  ELSE IF x < Head(s) THEN <<x>> \o s
  ELSE <<Head(s)>> \o InsertSorted(Tail(s), x)

RECURSIVE SortAsc(_)
\* sorted(list)
SortAsc(s) ==
  IF s = <<>> THEN <<>>
  ELSE InsertSorted(SortAsc(SubSeq(s, 1, Len(s) - 1)), s[Len(s)])

\* sorted(list, reverse=True)
SortDesc(s) == Reverse(SortAsc(s))

\* list.index(x): the first 1-based position of x, 0 when x is not in the
\* list (where Python raises ValueError).
IndexOf(s, x) ==
  IF \E i \in 1..Len(s) : s[i] = x
  THEN CHOOSE i \in 1..Len(s) : s[i] = x /\ \A j \in 1..(i - 1) : s[j] # x
  ELSE 0

(***************************************************************************)
(* update-team-stats.py: calculate_rank                                    *)
(***************************************************************************)
\* Bounds of the ranking inputs.
MaxVal == 2
MaxPop == 3

\* A statistic: a number (ratings may be negative or zero) or None.
RankNumbers == (-1)..MaxVal
RankValues == {None} \cup {Some(n) : n \in RankNumbers}

IsValidValue(v) == ~IsNone(v) /\ Val(v) # 0

\* [v for v in all_values if v is not None and v != 0], as plain numbers.
\* A None that is kept stays in the list as None.
ValidValuesKeepZero(all_values) == SelectSeq(all_values, LAMBDA v : ~IsNone(v))
ValidValues(all_values) == SelectSeq(all_values, IsValidValue)

\* sorted() compares the elements pairwise: a None among two or more
\* numbers raises TypeError.
SortRaises(values) ==
  Len(values) >= 2 /\ \E i \in 1..Len(values) : IsNone(values[i])

Numbers(values) == [i \in 1..Len(values) |-> Val(values[i])]

SortedValuesAscendingOnly(valid_values, higher_is_better) ==
  SortAsc(Numbers(valid_values))
SortedValues(valid_values, higher_is_better) ==
  IF higher_is_better THEN SortDesc(Numbers(valid_values))
  ELSE SortAsc(Numbers(valid_values))

\* The except-branch: the position of the first sorted value the subject
\* is at least as good as, and one past the end when there is none.
ClosestPositionOffByOne(sorted_values, value, higher_is_better) ==
  LET hit(i) == \/ higher_is_better /\ value >= sorted_values[i]
                \/ ~higher_is_better /\ value <= sorted_values[i]
  IN IF \E i \in 1..Len(sorted_values) : hit(i)
     THEN (CHOOSE i \in 1..Len(sorted_values) :
             hit(i) /\ \A j \in 1..(i - 1) : ~hit(j)) + 1
     ELSE Len(sorted_values) + 2
ClosestPosition(sorted_values, value, higher_is_better) ==
  LET hit(i) == \/ higher_is_better /\ value >= sorted_values[i]
                \/ ~higher_is_better /\ value <= sorted_values[i]
  IN IF \E i \in 1..Len(sorted_values) : hit(i)
     THEN CHOOSE i \in 1..Len(sorted_values) :
            hit(i) /\ \A j \in 1..(i - 1) : ~hit(j)
     ELSE Len(sorted_values) + 1

\* The outcome of a call: the rank returned, or raised = TRUE.
Returned(n) == [raised |-> FALSE, rank |-> n]
Raised == [raised |-> TRUE, rank |-> 0]

calculate_rank(value, all_values, higher_is_better) ==
  IF IsNone(value) \/ Val(value) = 0 THEN Returned(0)
  ELSE LET valid_values == ValidValues(all_values)
       IN IF valid_values = <<>> THEN Returned(0)
          ELSE IF SortRaises(valid_values) THEN Raised
          ELSE LET sorted_values == SortedValues(valid_values, higher_is_better)
                   index == IndexOf(sorted_values, Val(value))
               IN IF index # 0 THEN Returned(index)
                  ELSE Returned(ClosestPosition(sorted_values, Val(value),
                                                higher_is_better))

\* One call of calculate_rank on arbitrary inputs.
InitRank ==
  /\ rk \in [pc : {"call"}, value : RankValues,
             all_values : SeqsUpTo(RankValues, MaxPop),
             higher_is_better : BOOLEAN, out : {Returned(0)}]
  /\ ms = Idle /\ nm = Idle /\ mt = Idle /\ ps = Idle /\ gl = Idle /\ up = Idle /\ ft = Idle /\ pl = Idle /\ sc = Idle /\ rn = Idle

CalculateRank ==
  /\ rk.pc = "call"
  /\ rk' = [rk EXCEPT !.pc = "done",
              !.out = calculate_rank(rk.value, rk.all_values, rk.higher_is_better)]
  /\ UNCHANGED <<ms, nm, mt, ps, gl, up, ft, pl, sc, rn>>

NextRank == CalculateRank

SpecRank == InitRank /\ [][NextRank]_vars

\* The valid peers strictly better than the subject n under the polarity.
StrictlyBetter(n, all_values, higher_is_better) ==
  {i \in 1..Len(all_values) :
     /\ IsValidValue(all_values[i])
     /\ IF higher_is_better THEN Val(all_values[i]) > n ELSE Val(all_values[i]) < n}

NumValid(all_values) == Cardinality({i \in 1..Len(all_values) : IsValidValue(all_values[i])})

SubjectRanked == IsValidValue(rk.value) /\ NumValid(rk.all_values) > 0

SubjectInPopulation ==
  \E i \in 1..Len(rk.all_values) : rk.all_values[i] = rk.value

\* C1: calculate_rank returns 0 and raises nothing whenever the subject
\* value is None or 0, or the population holds no valid (non-None,
\* non-zero) value, for either polarity.
C1_UnrankedIsZero ==
  (rk.pc = "done" /\ ~SubjectRanked) => rk.out = Returned(0)

\* A call with a valid subject and a population of zeros and Nones only.
C1_Witness ==
  /\ rk.pc = "done" /\ IsValidValue(rk.value)
  /\ Len(rk.all_values) = 2 /\ NumValid(rk.all_values) = 0
  /\ rk.out = Returned(0)

\* C2 as stated: for a valid subject and a population with a valid value
\* the rank is a 1-based integer at most the size of the population,
\* whether or not the subject value occurs in the population.
C2_RankWithinPopulation ==
  (rk.pc = "done" /\ SubjectRanked) =>
    /\ ~rk.out.raised
    /\ 1 <= rk.out.rank /\ rk.out.rank <= Len(rk.all_values)

\* C2 amended: the rank is a 1-based integer at most the number of valid
\* peers plus one, and at most the size of the population when the subject
\* value occurs in the population.
C2_RankWithinPopulationPlusOne ==
  (rk.pc = "done" /\ SubjectRanked) =>
    /\ ~rk.out.raised
    /\ 1 <= rk.out.rank /\ rk.out.rank <= NumValid(rk.all_values) + 1
    /\ SubjectInPopulation => rk.out.rank <= Len(rk.all_values)

\* A subject outside its population and worse than every peer: it ranks
\* one past the last of them.
C2_Witness ==
  /\ rk.pc = "done" /\ SubjectRanked /\ ~SubjectInPopulation
  /\ NumValid(rk.all_values) = Len(rk.all_values)
  /\ rk.out.rank = Len(rk.all_values) + 1

\* C3: a ranked subject gets rank 1 exactly when no valid peer is strictly
\* better under the polarity, and in general 1 + the number of valid peers
\* strictly better than it (ties take the first position at that value).
C3_RankCountsStrictlyBetter ==
  (rk.pc = "done" /\ SubjectRanked) =>
    /\ rk.out = Returned(1 + Cardinality(StrictlyBetter(Val(rk.value), rk.all_values,
                                                       rk.higher_is_better)))
    /\ (rk.out.rank = 1) <=>
         (StrictlyBetter(Val(rk.value), rk.all_values, rk.higher_is_better) = {})

\* A lower-is-better call where the subject ties with a peer behind one
\* strictly better peer.
C3_Witness ==
  /\ rk.pc = "done" /\ SubjectRanked /\ ~rk.higher_is_better
  /\ Cardinality({i \in 1..Len(rk.all_values) : rk.all_values[i] = rk.value}) = 2
  /\ Cardinality(StrictlyBetter(Val(rk.value), rk.all_values, FALSE)) = 1
  /\ rk.out.rank = 2

(***************************************************************************)
(* fetch_playerstats_complete.py: merge_all_stats                          *)
(*                                                                         *)
(* A player-season object of the API is a dict.  The model carries the     *)
(* fields the derived blocks read: games, minutes, points (standing for    *)
(* the scalar counting stats, which the code all treats alike), turnovers, *)
(* and the stat groups fieldGoals, freeThrows and rebounds (standing for   *)
(* the six nested groups).  Numbers computed with round(x, 2) are kept in  *)
(* hundredths, those with round(x, 3) in thousandths.                      *)
(***************************************************************************)
\* Bounds of the player-season inputs.
MaxGames == 2
MaxMinutes == 2

EmptyDict == <<>>

\* d.get(k, default)
Get(d, k, default) == IF k \in DOMAIN d THEN d[k] ELSE default

\* The dict holding the keys of spec that are not Missing.  In spec a key
\* maps to <<>> (the key is missing) or to <<v>> (the key holds v).
Missing == <<>>
Present(v) == <<v>>
MkDict(spec) == [k \in {x \in DOMAIN spec : Len(spec[x]) > 0} |-> spec[k][1]]

\* d.get(g, {}).get(x, default) raises AttributeError when d holds g with
\* the value None: the default {} only replaces a missing key.
GroupIsNull(d, g) == g \in DOMAIN d /\ IsNone(d[g])
GetIn(d, g, x, default) == Get(Val(Get(d, g, Some(EmptyDict))), x, default)

StatGroups == {"fieldGoals", "freeThrows", "rebounds"}

\* round(num / den * scale) to the nearest integer, ties to the even one,
\* for den > 0 and num >= 0.
RoundRatio(num, den, scale) ==
  LET q == (num * scale) \div den
      r == (num * scale) % den
  IN IF 2 * r < den THEN q
     ELSE IF 2 * r > den THEN q + 1
     ELSE IF q % 2 = 0 THEN q ELSE q + 1

Max(a, b) == IF a >= b THEN a ELSE b

\* The fixed part of merged_player (lines 65-140).
MergedBase(player) ==
  [games |-> Get(player, "games", None),
   minutes |-> Get(player, "minutes", None),
   points |-> Get(player, "points", None),
   turnovers |-> Get(player, "turnovers", None),
   athleteId |-> Get(player, "athleteId", None),
   fieldGoals |-> [made |-> GetIn(player, "fieldGoals", "made", None),
                   attempted |-> GetIn(player, "fieldGoals", "attempted", None)],
   freeThrows |-> [attempted |-> GetIn(player, "freeThrows", "attempted", None)],
   rebounds |-> [total |-> GetIn(player, "rebounds", "total", None)]]

\* shooting_lookup: the last shooting record of each truthy athleteId.
ShootingLookup(shooting_stats) ==
  LET ids == {Val(Get(shooting_stats[i], "athleteId", None)) :
                i \in {j \in 1..Len(shooting_stats) :
                         LET a == Get(shooting_stats[j], "athleteId", None)
                         IN ~IsNone(a) /\ Val(a) # 0}}
      last(id) == CHOOSE i \in 1..Len(shooting_stats) :
                    /\ Get(shooting_stats[i], "athleteId", None) = Some(id)
                    /\ \A j \in (i + 1)..Len(shooting_stats) :
                         Get(shooting_stats[j], "athleteId", None) # Some(id)
  IN [id \in ids |-> shooting_stats[last(id)]]

\* if athlete_id and athlete_id in shooting_lookup
HasShooting(player, shooting_lookup) ==
  LET a == Get(player, "athleteId", None)
  IN ~IsNone(a) /\ Val(a) # 0 /\ Val(a) \in DOMAIN shooting_lookup

ShootingBlock(shooting) ==
  [trackedShots |-> Get(shooting, "trackedShots", None),
   dunks |-> [attempted |-> GetIn(shooting, "dunks", "attempted", None),
              made |-> GetIn(shooting, "dunks", "made", None)]]

\* The guards of the two derived blocks.
PerGameGuardNonNegative(games) == games >= 0
PerGameGuard(games) == games > 0

Per40Guard(minutes) == minutes > 0

\* The numerators of perGameAverages, in the order the code divides them.
PerGameNumerators(player) ==
  <<Get(player, "points", Some(0)),
    GetIn(player, "rebounds", "total", Some(0)),
    Get(player, "turnovers", Some(0)),
    Get(player, "minutes", Some(0)),
    GetIn(player, "fieldGoals", "made", Some(0)),
    GetIn(player, "fieldGoals", "attempted", Some(0)),
    GetIn(player, "freeThrows", "attempted", Some(0))>>

\* The numerators of per40Stats.
Per40Numerators(player) ==
  <<Get(player, "points", Some(0)),
    GetIn(player, "rebounds", "total", Some(0)),
    Get(player, "turnovers", Some(0))>>

\* The error of dividing each numerator by den, left to right: a None
\* numerator is a TypeError, a zero denominator a ZeroDivisionError.
DivisionError(numerators, den) ==
  IF IsNone(numerators[1]) THEN "TypeError"
  ELSE IF den = 0 THEN "ZeroDivisionError"
  ELSE IF \E i \in 1..Len(numerators) : IsNone(numerators[i]) THEN "TypeError"
  ELSE "none"

PerGameAverages(player, games) ==
  LET n == PerGameNumerators(player)
  IN [points |-> RoundRatio(Val(n[1]), games, 100),
      rebounds |-> RoundRatio(Val(n[2]), games, 100),
      turnovers |-> RoundRatio(Val(n[3]), games, 100),
      minutes |-> RoundRatio(Val(n[4]), games, 100),
      fieldGoalsMade |-> RoundRatio(Val(n[5]), games, 100),
      fieldGoalsAttempted |-> RoundRatio(Val(n[6]), games, 100),
      freeThrowsAttempted |-> RoundRatio(Val(n[7]), games, 100)]

Per40Stats(player, minutes) ==
  LET n == Per40Numerators(player)
  IN [points |-> RoundRatio(Val(n[1]) * 40, minutes, 100),
      rebounds |-> RoundRatio(Val(n[2]) * 40, minutes, 100),
      turnovers |-> RoundRatio(Val(n[3]) * 40, minutes, 100)]

\* possessions = fga + 0.44 * fta + tov, in hundredths.
Possessions100(fga, fta, tov) == 100 * fga + 44 * fta + 100 * tov

CalculatedMetrics(player, fga, fta, tov, minutes) ==
  LET points == Val(Get(player, "points", Some(0)))
      reb == Val(GetIn(player, "rebounds", "total", Some(0)))
      poss == Possessions100(fga, fta, tov)
  IN [pointsPerShot |-> RoundRatio(points, Max(fga, 1), 1000),
      pointsPerPossession |-> RoundRatio(points * 100, poss, 1000),
      turnoverPercentage |-> RoundRatio(tov * 10000, Max(poss, 100), 100),
      reboundRate |-> RoundRatio(reb * 40, Max(minutes, 1), 100)]

\* The outcome of merging: the merged value, or the exception raised.
MergeOk(v) == [err |-> "none", value |-> <<v>>]
MergeRaised(e) == [err |-> e, value |-> <<>>]

\* One iteration of the loop over season_stats (lines 61-267).
MergePlayer(player, shooting_lookup) ==
  IF \E g \in StatGroups : GroupIsNull(player, g) THEN MergeRaised("AttributeError")
  ELSE IF HasShooting(player, shooting_lookup)
          /\ GroupIsNull(shooting_lookup[Val(player["athleteId"])], "dunks")
  THEN MergeRaised("AttributeError")
  ELSE
  LET base == MergedBase(player)
      withShooting ==
        IF HasShooting(player, shooting_lookup)
        THEN ("shootingStats" :>
                ShootingBlock(shooting_lookup[Val(player["athleteId"])])) @@ base
        ELSE base
      games == Get(player, "games", Some(0))
      minutes == Get(player, "minutes", Some(0))
      fga == GetIn(player, "fieldGoals", "attempted", Some(0))
      fta == GetIn(player, "freeThrows", "attempted", Some(0))
      tov == Get(player, "turnovers", Some(0))
  IN
  IF IsNone(games) THEN MergeRaised("TypeError")
  ELSE IF PerGameGuard(Val(games))
          /\ DivisionError(PerGameNumerators(player), Val(games)) # "none"
  THEN MergeRaised(DivisionError(PerGameNumerators(player), Val(games)))
  ELSE IF IsNone(minutes) THEN MergeRaised("TypeError")
  ELSE IF Per40Guard(Val(minutes))
          /\ DivisionError(Per40Numerators(player), Val(minutes)) # "none"
  THEN MergeRaised(DivisionError(Per40Numerators(player), Val(minutes)))
  ELSE IF IsNone(fga) \/ IsNone(fta) \/ IsNone(tov) THEN MergeRaised("TypeError")
  ELSE
  LET hasMetrics == /\ (Val(fga) > 0 \/ Val(fta) > 0 \/ Val(tov) > 0)
                    /\ Possessions100(Val(fga), Val(fta), Val(tov)) > 0
      withPerGame ==
        IF PerGameGuard(Val(games))
        THEN ("perGameAverages" :> PerGameAverages(player, Val(games))) @@ withShooting
        ELSE withShooting
      withPer40 ==
        IF Per40Guard(Val(minutes))
        THEN ("per40Stats" :> Per40Stats(player, Val(minutes))) @@ withPerGame
        ELSE withPerGame
  IN
  IF hasMetrics /\ IsNone(Get(player, "points", Some(0))) THEN MergeRaised("TypeError")
  ELSE IF hasMetrics /\ IsNone(GetIn(player, "rebounds", "total", Some(0)))
  THEN MergeRaised("TypeError")
  ELSE IF hasMetrics
  THEN MergeOk(("calculatedMetrics" :>
                  CalculatedMetrics(player, Val(fga), Val(fta), Val(tov), Val(minutes)))
               @@ withPer40)
  ELSE MergeOk(withPer40)

RECURSIVE MergeFrom(_, _, _)
\* The loop over season_stats from position i: the list of merged players,
\* or the first exception.
MergeFrom(season_stats, shooting_lookup, i) ==
  IF i > Len(season_stats) THEN MergeOk(<<>>)
  ELSE LET one == MergePlayer(season_stats[i], shooting_lookup)
       IN IF one.err # "none" THEN MergeRaised(one.err)
          ELSE LET rest == MergeFrom(season_stats, shooting_lookup, i + 1)
               IN IF rest.err # "none" THEN rest
                  ELSE MergeOk(<<Val(one.value)>> \o Val(rest.value))

merge_all_stats(season_stats, shooting_stats) ==
  MergeFrom(season_stats, ShootingLookup(shooting_stats), 1)

\* The values a scalar field takes in the inputs: missing, null, 0..max.
ScalarSpecs(max) == {Missing, Present(None)} \cup {Present(Some(n)) : n \in 0..max}

PlayerSpecs ==
  [games : ScalarSpecs(MaxGames),
   minutes : ScalarSpecs(MaxMinutes),
   points : {Missing, Present(None), Present(Some(3))},
   turnovers : ScalarSpecs(1),
   athleteId : {Missing, Present(Some(1))},
   fieldGoals : {Missing, Present(None), Present(Some(EmptyDict)),
                 Present(Some([made |-> Some(0), attempted |-> Some(0)])),
                 Present(Some([made |-> Some(1), attempted |-> Some(2)]))},
   freeThrows : {Missing, Present(None), Present(Some([attempted |-> Some(0)])),
                 Present(Some([attempted |-> Some(1)]))},
   rebounds : {Missing, Present(None), Present(Some([total |-> Some(2)]))}]

ShootingInputs ==
  {<<>>, <<[athleteId |-> Some(1), trackedShots |-> Some(5),
            dunks |-> Some([attempted |-> Some(2), made |-> Some(1)])]>>}

\* One call of merge_all_stats on one player-season record.
InitMerge ==
  /\ \E spec \in PlayerSpecs, shooting \in ShootingInputs :
       ms = [pc |-> "call", season_stats |-> <<MkDict(spec)>>,
             shooting_stats |-> shooting, out |-> MergeOk(<<>>)]
  /\ rk = Idle /\ nm = Idle /\ mt = Idle /\ ps = Idle /\ gl = Idle /\ up = Idle /\ ft = Idle /\ pl = Idle /\ sc = Idle /\ rn = Idle

MergeAllStats ==
  /\ ms.pc = "call"
  /\ ms' = [ms EXCEPT !.pc = "done",
              !.out = merge_all_stats(ms.season_stats, ms.shooting_stats)]
  /\ UNCHANGED <<rk, nm, mt, ps, gl, up, ft, pl, sc, rn>>

NextMerge == MergeAllStats

SpecMerge == InitMerge /\ [][NextMerge]_vars

\* The field of player holds the number n.
HoldsNumber(player, k, n) == k \in DOMAIN player /\ player[k] = Some(n)

\* Every field of the record that is present holds numbers (no null).
AllNumeric(player) ==
  /\ \A k \in DOMAIN player : ~IsNone(player[k])
  /\ \A g \in StatGroups \cap DOMAIN player :
       \A x \in DOMAIN Val(player[g]) : ~IsNone(Val(player[g])[x])

ScalarFields == {"games", "minutes", "points", "turnovers"}

\* No scalar field of the record is null: what is absent, if anything, is
\* a stat group (missing or null) or a key.
ScalarsNotNull(player) == \A k \in ScalarFields \cap DOMAIN player : ~IsNone(player[k])

\* C19: for a player-season record whose stat groups may be absent (the
\* key missing or holding null) merge_all_stats does not raise, and the
\* record it emits carries every stat group.
C19_AbsentGroupsTolerated ==
  (ms.pc = "done" /\ ScalarsNotNull(ms.season_stats[1]))
    => /\ ms.out.err = "none"
       /\ StatGroups \subseteq DOMAIN Val(ms.out.value)[1]

\* C20: merge_all_stats returns one record per season-stats entry, and the
\* record of a player without a shooting-stats record carries the
\* shooting fields all the same.
C20_OneRecordWithShootingFields ==
  (ms.pc = "done" /\ ms.out.err = "none")
    => /\ Len(Val(ms.out.value)) = Len(ms.season_stats)
       /\ \A i \in 1..Len(ms.season_stats) :
            /\ Val(ms.out.value)[i].athleteId = Get(ms.season_stats[i], "athleteId", None)
            /\ "shootingStats" \in DOMAIN Val(ms.out.value)[i]

(***************************************************************************)
(* Name normalization: fetch_rankings.normalize_team_name and the two      *)
(* normalize_opponent_name functions of the schedule updaters.             *)
(* A name is a sequence of characters.                                     *)
(***************************************************************************)
UpperCase == <<"A", "B", "C", "D", "E", "F", "G", "H", "I", "J", "K", "L", "M", "N", "O", "P", "Q", "R", "S", "T", "U", "V", "W", "X", "Y", "Z">>
LowerCase == <<"a", "b", "c", "d", "e", "f", "g", "h", "i", "j", "k", "l", "m", "n", "o", "p", "q", "r", "s", "t", "u", "v", "w", "x", "y", "z">>

\* str.lower() on one character.
LowerChar(c) ==
  IF \E i \in 1..Len(UpperCase) : UpperCase[i] = c
  THEN LowerCase[CHOOSE i \in 1..Len(UpperCase) : UpperCase[i] = c]
  ELSE c

\* str.lower()
LowerKeepCase(s) == s
Lower(s) == [i \in 1..Len(s) |-> LowerChar(s[i])]

\* s.startswith(prefix)
StartsWith(s, prefix) ==
  Len(s) >= Len(prefix) /\ SubSeq(s, 1, Len(prefix)) = prefix

\* sub in s
Contains(s, sub) ==
  \E i \in 0..(Len(s) - Len(sub)) : SubSeq(s, i + 1, i + Len(sub)) = sub

RECURSIVE Replace(_, _, _)
\* s.replace(old, new): every non-overlapping occurrence of the non-empty
\* old, scanning from the left.
Replace(s, old, new) ==
  IF Len(s) < Len(old) THEN s
  ELSE IF StartsWith(s, old)
       THEN new \o Replace(SubSeq(s, Len(old) + 1, Len(s)), old, new)
       ELSE <<Head(s)>> \o Replace(Tail(s), old, new)

RECURSIVE ReplaceAll(_, _, _)
\* for old, new in replacements.items(): name = name.replace(old, new),
\* from entry i on, in the order of the dict literal.
ReplaceAll(s, replacements, i) ==
  IF i > Len(replacements) THEN s
  ELSE ReplaceAll(Replace(s, replacements[i][1], replacements[i][2]), replacements, i + 1)

RECURSIVE Strip(_)
\* s.strip(), the blank being the only whitespace of the model.
Strip(s) ==
  IF s = <<>> THEN s
  ELSE IF Head(s) = " " THEN Strip(Tail(s))
  ELSE IF s[Len(s)] = " " THEN Strip(SubSeq(s, 1, Len(s) - 1))
  ELSE s

RECURSIVE CollapseBlanks(_)
\* Every run of blanks of a stripped string made one blank.
CollapseBlanks(s) ==
  IF Len(s) < 2 THEN s
  ELSE IF s[1] = " " /\ s[2] = " " THEN CollapseBlanks(Tail(s))
  ELSE <<Head(s)>> \o CollapseBlanks(Tail(s))

\* ' '.join(s.split())
NormalizeWhitespace(s) == CollapseBlanks(Strip(s))

\* The replacements of fetch_rankings.normalize_team_name, in dict order.
TeamReplacements ==
  <<<<<<"s", "t", ".">>,
      <<"s", "t">>>>,
    <<<<"m", "i", "a", "m", "i", " ", "(", "o", "h", ")">>,
      <<"m", "i", "a", "m", "i", " ", "o", "h", "i", "o">>>>,
    <<<<"m", "i", "a", "m", "i", "-", "o", "h">>,
      <<"m", "i", "a", "m", "i", " ", "o", "h", "i", "o">>>>,
    <<<<"m", "i", "a", "m", "i", " ", "(", "f", "l", ")">>,
      <<"m", "i", "a", "m", "i">>>>,
    <<<<"m", "i", "a", "m", "i", "-", "f", "l">>,
      <<"m", "i", "a", "m", "i">>>>,
    <<<<"s", "t", " ", "j", "o", "h", "n", "'", "s">>,
      <<"s", "t", " ", "j", "o", "h", "n", "s">>>>,
    <<<<"s", "a", "i", "n", "t", " ", "j", "o", "h", "n", "'", "s">>,
      <<"s", "t", " ", "j", "o", "h", "n", "s">>>>,
    <<<<"s", "a", "i", "n", "t", " ", "l", "o", "u", "i", "s">>,
      <<"s", "t", " ", "l", "o", "u", "i", "s">>>>,
    <<<<"u", "n", "c">>,
      <<"n", "o", "r", "t", "h", " ", "c", "a", "r", "o", "l", "i", "n", "a">>>>,
    <<<<"u", "c", "o", "n", "n">>,
      <<"c", "o", "n", "n", "e", "c", "t", "i", "c", "u", "t">>>>>>

\* Lowercase, the alias replacements, the special characters, whitespace.
normalize_team_name(name) ==
  LET replaced == ReplaceAll(Lower(name), TeamReplacements, 1)
      stripped == Replace(Replace(Replace(Replace(replaced,
                    <<".">>, <<>>), <<"'">>, <<>>), <<"(">>, <<>>), <<")">>, <<>>)
  IN NormalizeWhitespace(stripped)

\* The replacements of update-basketball-data.normalize_opponent_name.
DataReplacements ==
  <<<<<<"s", "t", ".">>,
      <<"s", "t">>>>,
    <<<<"s", "t", " ">>,
      <<"s", "t">>>>,
    <<<<"s", "t", "a", "t", "e">>,
      <<"s", "t">>>>,
    <<<<"u", "n", "i", "v", "e", "r", "s", "i", "t", "y">>,
      <<>>>>,
    <<<<"u", "n", "i", "v">>,
      <<>>>>,
    <<<<"u", ".">>,
      <<>>>>>>

\* update-basketball-data.py: normalize_opponent_name
normalize_opponent_name_data(name) ==
  LET unprefixed == Replace(Replace(Replace(Replace(name,
                      <<"v", "s", " ">>, <<>>), <<"a", "t", " ">>, <<>>), <<"v", "s", ".", " ">>, <<>>), <<"@", " ">>, <<>>)
  IN NormalizeWhitespace(ReplaceAll(Lower(Strip(unprefixed)), DataReplacements, 1))

\* The name variations of update-schedule-results.normalize_opponent_name.
ResultsReplacements ==
  <<<<<<"M", "i", "z", "z", "o", "u">>,
      <<"M", "i", "s", "s", "o", "u", "r", "i">>>>,
    <<<<"O", "l", "e", " ", "M", "i", "s", "s">>,
      <<"M", "i", "s", "s", "i", "s", "s", "i", "p", "p", "i">>>>,
    <<<<"M", "i", "s", "s", "i", "s", "s", "i", "p", "p", "i", " ", "S", "t", "a", "t", "e">>,
      <<"M", "i", "s", "s", "i", "s", "s", "i", "p", "p", "i", " ", "S", "t", "a", "t", "e">>>>,
    <<<<"T", "e", "n", "n", "e", "s", "s", "e", "e", " ", "T", "e", "c", "h">>,
      <<"T", "e", "n", "n", "e", "s", "s", "e", "e", " ", "T", "e", "c", "h">>>>,
    <<<<"S", "t", ".", " ", "J", "o", "h", "n", "s">>,
      <<"S", "t", ".", " ", "J", "o", "h", "n", "'", "s">>>>,
    <<<<"S", "t", ".", " ", "J", "o", "h", "n", "'", "s">>,
      <<"S", "t", ".", " ", "J", "o", "h", "n", "'", "s">>>>>>

RECURSIVE ReplaceWhole(_, _, _)
\* for old, new in replacements.items(): if old.lower() in
\* normalized.lower(): normalized = new
ReplaceWhole(s, replacements, i) ==
  IF i > Len(replacements) THEN s
  ELSE ReplaceWhole(IF Contains(Lower(s), Lower(replacements[i][1]))
                    THEN replacements[i][2] ELSE s,
                    replacements, i + 1)

\* The "vs " or "at " prefix removed, once.
RemovePrefix(s) ==
  IF StartsWith(s, <<"v", "s", " ">>) THEN SubSeq(s, 4, Len(s))
  ELSE IF StartsWith(s, <<"a", "t", " ">>) THEN SubSeq(s, 4, Len(s))
  ELSE s

\* update-schedule-results.py: normalize_opponent_name
normalize_opponent_name(name) ==
  Strip(ReplaceWhole(RemovePrefix(Strip(name)), ResultsReplacements, 1))

\* Bound of the composed names: the most words in one.
MaxWords == 3

\* Words of school and opponent names.
NameWords ==
  {<<"v", "s">>,
   <<"a", "t">>,
   <<"C", "a", "l">>,
   <<"S", "t", "a", "t", "e">>,
   <<"F", "u", "l", "l", "e", "r", "t", "o", "n">>,
   <<"S", "a", "i", "n", "t">>,
   <<"L", "o", "u", "i", "s">>,
   <<"M", "i", "z", "z", "o", "u">>,
   <<"O", "l", "e">>,
   <<"M", "i", "s", "s">>}

\* The separators between the words of a name: one blank or two.
Separators == {<<" ">>, <<" ", " ">>}

RECURSIVE JoinWords(_, _)
JoinWords(ws, sep) ==
  IF Len(ws) = 0 THEN <<>>
  ELSE IF Len(ws) = 1 THEN ws[1]
  ELSE ws[1] \o sep \o JoinWords(Tail(ws), sep)

ComposedNames ==
  {JoinWords(ws, sep) : ws \in SeqsUpTo(NameWords, MaxWords) \ {<<>>}, sep \in Separators}

\* The spellings of one school, per school: the aliases of the replacement
\* table and their targets.
AliasGroups ==
  <<{<<"U", "C", "o", "n", "n">>,
     <<"C", "o", "n", "n", "e", "c", "t", "i", "c", "u", "t">>},
    {<<"U", "N", "C">>,
     <<"N", "o", "r", "t", "h", " ", "C", "a", "r", "o", "l", "i", "n", "a">>},
    {<<"S", "a", "i", "n", "t", " ", "J", "o", "h", "n", "'", "s">>,
     <<"S", "t", ".", " ", "J", "o", "h", "n", "'", "s">>,
     <<"S", "t", " ", "J", "o", "h", "n", "'", "s">>,
     <<"S", "t", " ", "J", "o", "h", "n", "s">>},
    {<<"M", "i", "a", "m", "i", " ", "(", "F", "L", ")">>,
     <<"M", "i", "a", "m", "i", "-", "F", "L">>,
     <<"M", "i", "a", "m", "i">>},
    {<<"M", "i", "a", "m", "i", " ", "(", "O", "H", ")">>,
     <<"M", "i", "a", "m", "i", "-", "O", "H">>,
     <<"M", "i", "a", "m", "i", " ", "O", "h", "i", "o">>},
    {<<"S", "a", "i", "n", "t", " ", "L", "o", "u", "i", "s">>,
     <<"S", "t", ".", " ", "L", "o", "u", "i", "s">>,
     <<"S", "t", " ", "L", "o", "u", "i", "s">>}>>

\* str.upper() on one character.
UpperChar(c) ==
  IF \E i \in 1..Len(LowerCase) : LowerCase[i] = c
  THEN UpperCase[CHOOSE i \in 1..Len(LowerCase) : LowerCase[i] = c]
  ELSE c

RECURSIVE CaseVariants(_)
\* The spellings of s in every letter case.
CaseVariants(s) ==
  IF s = <<>> THEN {<<>>}
  ELSE {<<c>> \o rest : c \in {LowerChar(Head(s)), UpperChar(Head(s))},
                        rest \in CaseVariants(Tail(s))}

AliasNames == UNION {CaseVariants(s) : s \in UNION {AliasGroups[g] : g \in 1..Len(AliasGroups)}}

NormalizerNames == {"team", "opponent_data", "opponent_results"}

\* normalize applied by the function called fn.
Normalize(fn, name) ==
  CASE fn = "team" -> normalize_team_name(name)
    [] fn = "opponent_data" -> normalize_opponent_name_data(name)
    [] fn = "opponent_results" -> normalize_opponent_name(name)

\* A name is normalized, and its key normalized again.
InitNorm ==
  /\ \/ \E fn \in NormalizerNames, name \in ComposedNames :
          nm = [pc |-> "call", fn |-> fn, name |-> name, once |-> <<>>, twice |-> <<>>]
     \/ \E name \in AliasNames :
          nm = [pc |-> "call", fn |-> "team", name |-> name, once |-> <<>>, twice |-> <<>>]
  /\ rk = Idle /\ ms = Idle /\ mt = Idle /\ ps = Idle /\ gl = Idle /\ up = Idle /\ ft = Idle /\ pl = Idle /\ sc = Idle /\ rn = Idle

NormalizeName ==
  /\ nm.pc = "call"
  /\ nm' = [nm EXCEPT !.pc = "once", !.once = Normalize(nm.fn, nm.name)]
  /\ UNCHANGED <<rk, ms, mt, ps, gl, up, ft, pl, sc, rn>>

NormalizeAgain ==
  /\ nm.pc = "once"
  /\ nm' = [nm EXCEPT !.pc = "twice", !.twice = Normalize(nm.fn, nm.once)]
  /\ UNCHANGED <<rk, ms, mt, ps, gl, up, ft, pl, sc, rn>>

NextNorm == NormalizeName \/ NormalizeAgain

SpecNorm == InitNorm /\ [][NextNorm]_vars

\* C5: name normalization is idempotent: normalizing an already normalized
\* name yields the same string, for normalize_team_name and for the two
\* normalize_opponent_name functions.
C5_NormalizeIdempotent ==
  nm.pc = "twice" => nm.twice = nm.once

\* The school group whose spelling, in some letter case, name is (0: none).
IsCaseVariant(name, s) ==
  Len(name) = Len(s) /\ \A i \in 1..Len(s) : LowerChar(name[i]) = LowerChar(s[i])

GroupOf(name) ==
  IF \E g \in 1..Len(AliasGroups) : \E s \in AliasGroups[g] : IsCaseVariant(name, s)
  THEN CHOOSE g \in 1..Len(AliasGroups) : \E s \in AliasGroups[g] : IsCaseVariant(name, s)
  ELSE 0

\* The key expected of each school of AliasGroups.
GroupKey ==
  <<<<"c", "o", "n", "n", "e", "c", "t", "i", "c", "u", "t">>,
    <<"n", "o", "r", "t", "h", " ", "c", "a", "r", "o", "l", "i", "n", "a">>,
    <<"s", "t", " ", "j", "o", "h", "n", "s">>,
    <<"m", "i", "a", "m", "i">>,
    <<"m", "i", "a", "m", "i", " ", "o", "h", "i", "o">>,
    <<"s", "t", " ", "l", "o", "u", "i", "s">>>>

\* C6: every spelling of a school of the alias table ("UConn" and
\* "Connecticut", "UNC" and "North Carolina", ...), in any letter case,
\* normalizes under normalize_team_name to the one key of its school, so two
\* spellings of one school get the same key.
C6_AliasesShareKey ==
  (nm.pc = "once" /\ nm.fn = "team" /\ GroupOf(nm.name) # 0) =>
    nm.once = GroupKey[GroupOf(nm.name)]

\* "UConn" normalized: the key is not the input's own lowercase spelling.
C6_Witness ==
  /\ nm.pc = "once" /\ nm.fn = "team"
  /\ nm.name = <<"U", "C", "o", "n", "n">>
  /\ nm.once = <<"c", "o", "n", "n", "e", "c", "t", "i", "c", "u", "t">>

(***************************************************************************)
(* update-schedule-results.py: match_game_by_opponent_and_date             *)
(*                                                                         *)
(* A calendar date is its day number.  The text of a schedule date is its  *)
(* shape (fmt) and the day it names; an API start date is a datetime: a    *)
(* day and the seconds into it.                                            *)
(***************************************************************************)
\* Bounds of the matching inputs.
MaxApiGames == 2

\* The day of the schedule entries of the model, and the days of the API
\* games: up to two days before and after it.
ScheduleDay == 3
ApiDays == (ScheduleDay - 2)..(ScheduleDay + 2)

\* "November 4, 2025" (the hand-kept schedule) and "Nov 4" (no year).
DateFormats == {"%B %d, %Y", "%b %d"}

\* datetime.strptime(text, fmt): the datetime at midnight, or None where
\* Python raises ValueError.
StrptimeAnyFormat(text, fmt) == Some([day |-> text.day, secs |-> 0])
Strptime(text, fmt) ==
  IF text.fmt = fmt THEN Some([day |-> text.day, secs |-> 0]) ELSE None

\* (a - b).days: the timedelta is normalized to 0 <= seconds < 86400, so
\* days is the floor.
DeltaDaysTruncated(a, b) ==
  LET total == (a.day - b.day) * 86400 + (a.secs - b.secs)
  IN IF total >= 0 THEN total \div 86400 ELSE -((-total) \div 86400)
DeltaDays(a, b) ==
  ((a.day - b.day) * 86400 + (a.secs - b.secs)) \div 86400

Abs(n) == IF n < 0 THEN -n ELSE n

\* api_opponent.lower() != schedule_opponent.lower() is false
OpponentsMatchAny(api_opponent, schedule_opponent) == TRUE
OpponentsMatch(api_opponent, schedule_opponent) ==
  Lower(api_opponent) = Lower(schedule_opponent)

\* The position in api_games of the game returned, 0 for None.
match_game_by_opponent_and_date(schedule_game, api_games) ==
  LET schedule_opponent == normalize_opponent_name(schedule_game.opponent)
      schedule_date == Strptime(schedule_game.date, "%B %d, %Y")
      matches(i) ==
        /\ OpponentsMatch(normalize_opponent_name(api_games[i].opponent),
                          schedule_opponent)
        /\ Abs(DeltaDays(api_games[i].date, Val(schedule_date))) <= 1
  IN IF IsNone(schedule_date) THEN 0
     ELSE IF \E i \in 1..Len(api_games) : matches(i)
     THEN CHOOSE i \in 1..Len(api_games) : matches(i) /\ \A j \in 1..(i - 1) : ~matches(j)
     ELSE 0

\* Opponents as the schedule file spells them.
ScheduleOpponents ==
  {<<"v", "s", " ", "D", "u", "k", "e">>, <<"M", "i", "z", "z", "o", "u">>, <<"a", "t", " ", "m", "i", "s", "s", "o", "u", "r", "i">>, <<"L", "o", "u", "i", "s", "v", "i", "l", "l", "e">>}

\* Opponents as the API names them.
ApiOpponents == {<<"D", "u", "k", "e">>, <<"M", "i", "s", "s", "o", "u", "r", "i">>}

\* Start times: midnight and 20:00.
ApiTimes == {0, 72000}

ApiGames ==
  [opponent : ApiOpponents,
   date : [day : ApiDays, secs : ApiTimes]]

\* One call of match_game_by_opponent_and_date.
InitMatch ==
  /\ mt \in [pc : {"call"},
             schedule_game : [opponent : ScheduleOpponents,
                              date : [fmt : DateFormats, day : {ScheduleDay}]],
             api_games : SeqsUpTo(ApiGames, MaxApiGames),
             out : {0}]
  /\ rk = Idle /\ ms = Idle /\ nm = Idle /\ ps = Idle /\ gl = Idle /\ up = Idle /\ ft = Idle /\ pl = Idle /\ sc = Idle /\ rn = Idle

MatchGame ==
  /\ mt.pc = "call"
  /\ mt' = [mt EXCEPT !.pc = "done",
              !.out = match_game_by_opponent_and_date(mt.schedule_game, mt.api_games)]
  /\ UNCHANGED <<rk, ms, nm, ps, gl, up, ft, pl, sc, rn>>

NextMatch == MatchGame

SpecMatch == InitMatch /\ [][NextMatch]_vars

\* API game i names the opponent of the schedule entry (normalized names
\* equal, letter case aside).
SameOpponent(i) ==
  Lower(normalize_opponent_name(mt.api_games[i].opponent))
    = Lower(normalize_opponent_name(mt.schedule_game.opponent))

\* The calendar days between API game i and the schedule entry.
CalendarGap(i) == Abs(mt.api_games[i].date.day - mt.schedule_game.date.day)

ScheduleDateParses == mt.schedule_game.date.fmt = "%B %d, %Y"

C8_NeverMatchesOtherOpponent ==
  (mt.pc = "done" /\ mt.out # 0) => SameOpponent(mt.out)

\* "Mizzou" matched to the API's "Missouri", past a game of another
\* opponent on the very day.
C8_Witness ==
  /\ mt.pc = "done" /\ mt.out = 2
  /\ ~SameOpponent(1) /\ CalendarGap(1) = 0
  /\ mt.schedule_game.opponent # mt.api_games[2].opponent

(***************************************************************************)
(* fetch_gamelog_complete.py: organize_complete_game_data and              *)
(* calculate_game_results.  A log entry is a dict of optional values; of   *)
(* the nested stat groups the model keeps 'points' and its 'total', of a   *)
(* player entry its 'athleteId'.                                           *)
(***************************************************************************)
\* Bound: the most player-log entries of one season.
MaxPlayerLogs == 3

\* Bound: the most team-log entries of one season.
MaxTeamLogs == 1

DecimalDigits == <<"0", "1", "2", "3", "4", "5", "6", "7", "8", "9">>

RECURSIVE Str(_)
\* str(n), the decimal text of n >= 0 (also the f-string conversion).
Str(n) ==
  IF n < 10 THEN DecimalDigits[n + 1]
  ELSE Str(n \div 10) \o DecimalDigits[(n % 10) + 1]

\* The game ids of the logs.
GameIds == {1, 2}

\* The point totals of the team logs.
PointTotals == {65, 78}

\* if game_id: the id is neither None nor 0.
Truthy(game_id) == ~IsNone(game_id) /\ Val(game_id) # 0

\* game_lookup (lines 46-50): each truthy gameId maps to the last team log
\* that carries it.
game_lookup(team_logs) ==
  LET withId == {i \in 1..Len(team_logs) : Truthy(Get(team_logs[i], "gameId", None))}
      idOf(i) == Val(team_logs[i]["gameId"])
  IN [id \in {idOf(i) : i \in withId} |->
        team_logs[CHOOSE i \in withId :
                    idOf(i) = id /\ \A j \in withId : idOf(j) = id => j <= i]]

\* team_game.get(side, {})
StatsOf(team_game, side) == Val(Get(team_game, side, Some(EmptyDict)))

\* team_game.get(side, {}).get('points', {}).get('total') raises
\* AttributeError when side, or its 'points', holds None.
PointsRaises(team_game, side) ==
  \/ GroupIsNull(team_game, side)
  \/ GroupIsNull(StatsOf(team_game, side), "points")

PointsTotal(team_game, side) ==
  GetIn(StatsOf(team_game, side), "points", "total", None)

\* The 'teamStats' / 'opponentStats' block of a game record.
StatsBlock(team_game, side) ==
  [points |-> [total |-> PointsTotal(team_game, side)]]

\* The record opened by the first player log of a game (lines 63-236).
NewGame(game_id, game_log, team_game) ==
  [gameId |-> game_id,
   opponent |-> Get(game_log, "opponent", None),
   teamStats |-> StatsBlock(team_game, "teamStats"),
   opponentStats |-> StatsBlock(team_game, "opponentStats"),
   players |-> <<>>]

\* The entry appended to the game's players (lines 239-299).
PlayerEntry(game_log) == <<[athleteId |-> Get(game_log, "athleteId", None)]>>

GamesOk(games) == [kind |-> "returned", value |-> games]
GamesRaised(error) == [kind |-> "raised", value |-> error]

\* The position in games (insertion order of games_dict) of the record of
\* game_id, 0 when there is none.
GameIndex(games, game_id) ==
  IF \E i \in 1..Len(games) : games[i].gameId = game_id
  THEN CHOOSE i \in 1..Len(games) : games[i].gameId = game_id
  ELSE 0

RECURSIVE OrganizeFrom(_, _, _, _)
\* The loop over player_logs from entry i on (lines 54-299).
OrganizeFrom(player_logs, i, lookup, games) ==
  IF i > Len(player_logs) THEN GamesOk(games)
  ELSE LET game_log == player_logs[i]
           game_id == Get(game_log, "gameId", None)
       IN IF ~Truthy(game_id)
          THEN OrganizeFrom(player_logs, i + 1, lookup, games)
          ELSE LET id == Val(game_id)
                   known == GameIndex(games, id) # 0
                   team_game == Get(lookup, id, EmptyDict)
               IN IF /\ ~known
                     /\ \/ PointsRaises(team_game, "teamStats")
                        \/ PointsRaises(team_game, "opponentStats")
                  THEN GamesRaised("AttributeError")
                  ELSE LET opened == IF known THEN games
                                     ELSE Append(games, NewGame(id, game_log, team_game))
                           at == GameIndex(opened, id)
                       IN OrganizeFrom(player_logs, i + 1, lookup,
                            [opened EXCEPT ![at].players = @ \o PlayerEntry(game_log)])

organize_complete_game_data(player_logs, team_logs) ==
  OrganizeFrom(player_logs, 1, game_lookup(team_logs), <<>>)

\* 'W' if team_points > opponent_points else 'L'
GameResultTieWins(team_points, opponent_points) ==
  IF team_points >= opponent_points THEN "W" ELSE "L"
GameResult(team_points, opponent_points) ==
  IF team_points > opponent_points THEN "W" ELSE "L"

\* team_points > opponent_points raises TypeError when a total is None: the
\* key 'total' is always present in an organized record, so the default 0
\* of .get('total', 0) never applies.
ComparisonRaises(game) ==
  IsNone(game.teamStats.points.total) \/ IsNone(game.opponentStats.points.total)

\* The fields calculate_game_results adds to one game (lines 306-323).
WithResult(game) ==
  LET team_points == Val(game.teamStats.points.total)
      opponent_points == Val(game.opponentStats.points.total)
      result == GameResult(team_points, opponent_points)
  IN game @@ [result |-> result,
              finalScore |-> result \o " " \o Str(team_points) \o "-" \o Str(opponent_points),
              pointDifferential |-> team_points - opponent_points,
              teamScore |-> team_points,
              opponentScore |-> opponent_points]

calculate_game_results(games) ==
  IF \E i \in 1..Len(games) : ComparisonRaises(games[i])
  THEN GamesRaised("TypeError")
  ELSE GamesOk([i \in 1..Len(games) |-> WithResult(games[i])])

\* main, lines 357-361: organize, then add the results.
GameLogPipeline(player_logs, team_logs) ==
  LET organized == organize_complete_game_data(player_logs, team_logs)
  IN IF organized.kind = "raised" THEN organized
     ELSE calculate_game_results(organized.value)

\* The gameId of a log entry of the API: absent, or an id.
LogGameIds == {None} \cup {Some(id) : id \in GameIds}

\* The i-th player log of the response.
PlayerLog(game_id, i) ==
  MkDict([gameId |-> IF IsNone(game_id) THEN Missing ELSE Present(game_id),
          athleteId |-> Present(Some(i)),
          opponent |-> Present(Some("Duke"))])

\* The shapes of a stats group of a team log: with a numeric total, absent,
\* null, with a null 'points', with a null 'total'.
StatsShapes ==
  {[shape |-> "numeric", total |-> n] : n \in PointTotals}
    \cup {[shape |-> s, total |-> 0] : s \in {"missing", "null", "points_null", "total_null"}}

StatsGroup(s) ==
  CASE s.shape = "numeric" ->
         Present(Some([points |-> Some([total |-> Some(s.total)])]))
    [] s.shape = "missing" -> Missing
    [] s.shape = "null" -> Present(None)
    [] s.shape = "points_null" -> Present(Some([points |-> None]))
    [] s.shape = "total_null" -> Present(Some([points |-> Some([total |-> None])]))

\* The team logs of the API: at least one of the two groups is numeric.
TeamLogShapes ==
  {t \in [gameId : LogGameIds, teamStats : StatsShapes, opponentStats : StatsShapes] :
     t.teamStats.shape = "numeric" \/ t.opponentStats.shape = "numeric"}

TeamLog(t) ==
  MkDict([gameId |-> IF IsNone(t.gameId) THEN Missing ELSE Present(t.gameId),
          teamStats |-> StatsGroup(t.teamStats),
          opponentStats |-> StatsGroup(t.opponentStats)])

InitGamelog ==
  /\ \E ids \in SeqsUpTo(LogGameIds, MaxPlayerLogs),
        shapes \in SeqsUpTo(TeamLogShapes, MaxTeamLogs) :
       gl = [pc |-> "call",
             player_logs |-> [i \in 1..Len(ids) |-> PlayerLog(ids[i], i)],
             team_logs |-> [i \in 1..Len(shapes) |-> TeamLog(shapes[i])],
             out |-> GamesOk(<<>>)]
  /\ rk = Idle /\ ms = Idle /\ nm = Idle /\ mt = Idle /\ ps = Idle /\ up = Idle /\ ft = Idle /\ pl = Idle /\ sc = Idle /\ rn = Idle

OrganizeAndCalculate ==
  /\ gl.pc = "call"
  /\ gl' = [gl EXCEPT !.pc = "done",
              !.out = GameLogPipeline(gl.player_logs, gl.team_logs)]
  /\ UNCHANGED <<rk, ms, nm, mt, ps, up, ft, pl, sc, rn>>

NextGamelog == OrganizeAndCalculate

SpecGamelog == InitGamelog /\ [][NextGamelog]_vars

\* The positions of the player logs, and of the team logs, of game id.
PlayerLogsOf(id) ==
  {i \in 1..Len(gl.player_logs) : Get(gl.player_logs[i], "gameId", None) = Some(id)}

TeamLogsOf(id) ==
  {i \in 1..Len(gl.team_logs) : Get(gl.team_logs[i], "gameId", None) = Some(id)}

\* The total of side in team log t when every level down to it is present
\* and not null, None otherwise.
InputTotal(t, side) ==
  IF side \notin DOMAIN t THEN None
  ELSE IF IsNone(t[side]) THEN None
  ELSE IF "points" \notin DOMAIN Val(t[side]) THEN None
  ELSE IF IsNone(Val(t[side])["points"]) THEN None
  ELSE IF "total" \notin DOMAIN Val(Val(t[side])["points"]) THEN None
  ELSE Val(Val(t[side])["points"])["total"]

TheTeamLog(id) == gl.team_logs[CHOOSE i \in TeamLogsOf(id) : TRUE]

\* Game id has player logs and exactly one team log, with both totals.
GameIsComplete(id) ==
  /\ PlayerLogsOf(id) # {}
  /\ Cardinality(TeamLogsOf(id)) = 1
  /\ ~IsNone(InputTotal(TheTeamLog(id), "teamStats"))
  /\ ~IsNone(InputTotal(TheTeamLog(id), "opponentStats"))

AssembledOf(id) ==
  {i \in 1..Len(gl.out.value) : gl.out.value[i].gameId = id}

\* C10: when every game of the player logs has its one team log with both
\* point totals, the pipeline returns; and in what it returns the record
\* of such a game is unique, its result is 'W' when the team's total
\* exceeds the opponent's and 'L' otherwise, its pointDifferential is the
\* team's total minus the opponent's (13 for 78 against 65), and its
\* players list has one entry per player log of that game id.
C10_GameResultAndPlayers ==
  gl.pc = "done" =>
    /\ (\A id \in GameIds : PlayerLogsOf(id) # {} => GameIsComplete(id))
         => gl.out.kind = "returned"
    /\ gl.out.kind = "returned" =>
         \A id \in GameIds : GameIsComplete(id) =>
           /\ Cardinality(AssembledOf(id)) = 1
           /\ LET game == gl.out.value[CHOOSE i \in AssembledOf(id) : TRUE]
                  team == Val(InputTotal(TheTeamLog(id), "teamStats"))
                  opponent == Val(InputTotal(TheTeamLog(id), "opponentStats"))
              IN /\ game.result = (IF team > opponent THEN "W" ELSE "L")
                 /\ game.pointDifferential = team - opponent
                 /\ (team = 78 /\ opponent = 65 => game.pointDifferential = 13)
                 /\ Len(game.players) = Cardinality(PlayerLogsOf(id))

\* A 78-65 game assembled from its team log and two of three player logs,
\* the third log carrying no game id.
C10_Witness ==
  /\ gl.pc = "done" /\ gl.out.kind = "returned"
  /\ Len(gl.player_logs) = 3 /\ Len(gl.out.value) = 1
  /\ gl.out.value[1].teamScore = 78 /\ gl.out.value[1].opponentScore = 65
  /\ gl.out.value[1].result = "W" /\ gl.out.value[1].finalScore = "W 78-65"
  /\ gl.out.value[1].pointDifferential = 13
  /\ Len(gl.out.value[1].players) = 2
  /\ GameIsComplete(gl.out.value[1].gameId)

\* C18: when every game of the player logs either has its one team log
\* with both point totals or has no team log at all (as when the team-log
\* fetch returned []), the pipeline returns, and a game without team log
\* has its record.
C18_UnmatchedPlayerLogTolerated ==
  (gl.pc = "done"
     /\ \A id \in GameIds :
          PlayerLogsOf(id) # {} => (GameIsComplete(id) \/ TeamLogsOf(id) = {}))
    => /\ gl.out.kind = "returned"
       /\ \A id \in GameIds :
            (PlayerLogsOf(id) # {} /\ TeamLogsOf(id) = {})
              => Cardinality(AssembledOf(id)) = 1

(***************************************************************************)
(* File persistence: the documents the scripts hand to json.dump, the      *)
(* JSON value the file then holds, and what json.load makes of it.         *)
(* A Python value carries its type; a dict maps int or str keys to         *)
(* values; a JSON object has text member names only.                       *)
(***************************************************************************)
\* Bound: the most games, players or schedule entries of one season.
MaxSeasonRecords == 2

\* Bound: the most entries of the rankings response.
MaxRankingEntries == 2

\* The seasons of fetch_playerstats_complete; of the seasons of
\* fetch_gamelog_complete, which start in 2009, the model keeps these.
START_YEAR == 2025

END_YEAR == 2026

TEAM == "Kentucky"

API_BASE == "https://api.collegebasketballdata.com"

\* datetime.now().isoformat() at the time of the run.
NowIso == "2026-01-05T06:00:00"

PInt(n) == [t |-> "int", i |-> n, s |-> ""]

PStr(x) == [t |-> "str", i |-> 0, s |-> x]

PNone == [t |-> "none"]

PBool(b) == [t |-> "bool", b |-> b]

PList(items) == [t |-> "list", items |-> items]

PDict(map) == [t |-> "dict", map |-> map]

\* A dict literal with str keys, from the record of its members.
StrDict(members) ==
  PDict([k \in {PStr(name) : name \in DOMAIN members} |-> members[k.s]])

\* A dict with int keys, from the function of its members.
IntDict(members) ==
  PDict([k \in {PInt(n) : n \in DOMAIN members} |-> members[k.i]])

OptInt(v) == IF IsNone(v) THEN PNone ELSE PInt(Val(v))

OptStr(v) == IF IsNone(v) THEN PNone ELSE PStr(Val(v))

RECURSIVE JoinChars(_)
\* The str of a sequence of characters.
JoinChars(chars) ==
  IF chars = <<>> THEN "" ELSE Head(chars) \o JoinChars(Tail(chars))

JNum(n) == [t |-> "number", i |-> n, s |-> ""]

JStr(x) == [t |-> "string", i |-> 0, s |-> x]

JNull == [t |-> "null"]

JBool(b) == [t |-> "boolean", b |-> b]

JArr(items) == [t |-> "array", items |-> items]

JObj(members) == [t |-> "object", members |-> members]

\* The member name json.dump writes for a dict key: a str key as it is, an
\* int key as its decimal text.
KeyText(k) == IF k.t = "int" THEN Str(k.i) ELSE k.s

RECURSIVE JsonDump(_)
\* json.dump(v, f): the JSON value of the text written.  (Two keys of one
\* dict with the same member name do not occur in the documents below.)
JsonDump(v) ==
  CASE v.t = "int" -> JNum(v.i)
    [] v.t = "str" -> JStr(v.s)
    [] v.t = "none" -> JNull
    [] v.t = "bool" -> JBool(v.b)
    [] v.t = "list" -> JArr([i \in 1..Len(v.items) |-> JsonDump(v.items[i])])
    [] v.t = "dict" ->
         JObj([name \in {KeyText(k) : k \in DOMAIN v.map} |->
                 JsonDump(v.map[CHOOSE k \in DOMAIN v.map : KeyText(k) = name])])

RECURSIVE JsonLoad(_)
\* json.load(f): numbers, strings, null, booleans, lists, and dicts keyed
\* by str.
JsonLoad(j) ==
  CASE j.t = "number" -> PInt(j.i)
    [] j.t = "string" -> PStr(j.s)
    [] j.t = "null" -> PNone
    [] j.t = "boolean" -> PBool(j.b)
    [] j.t = "array" -> PList([i \in 1..Len(j.items) |-> JsonLoad(j.items[i])])
    [] j.t = "object" ->
         PDict([k \in {PStr(name) : name \in DOMAIN j.members} |->
                  JsonLoad(j.members[k.s])])

\* The seasons main loops over.
Years == START_YEAR..END_YEAR

\* The seasons of all_seasons_games / all_seasons_data, in insertion order.
SeasonsIncluded(all_seasons) ==
  SelectSeq([i \in 1..(END_YEAR - START_YEAR + 1) |-> START_YEAR + i - 1],
            LAMBDA year : year \in DOMAIN all_seasons)

\* output of main (fetch_gamelog_complete lines 378-385 and
\* fetch_playerstats_complete lines 299-306): 'seasons' is the dict keyed
\* by the int year.
SeasonsOutput(all_seasons) ==
  StrDict([lastUpdated |-> PStr(NowIso),
           team |-> PStr(TEAM),
           dataSource |-> PStr(API_BASE),
           seasonsIncluded |->
             PList([i \in 1..Len(SeasonsIncluded(all_seasons)) |->
                      PInt(SeasonsIncluded(all_seasons)[i])]),
           totalSeasons |-> PInt(Cardinality(DOMAIN all_seasons)),
           seasons |-> IntDict(all_seasons)])

\* f"{year-1}{year}"
SeasonLabel(year) == Str(year - 1) \o Str(year)

\* A game record of calculate_game_results as a Python value.
GameValue(game) ==
  StrDict([gameId |-> PInt(game.gameId),
           opponent |-> OptStr(game.opponent),
           teamStats |-> StrDict([points |-> StrDict([total |-> OptInt(game.teamStats.points.total)])]),
           opponentStats |-> StrDict([points |-> StrDict([total |-> OptInt(game.opponentStats.points.total)])]),
           players |-> PList([i \in 1..Len(game.players) |->
                                StrDict([athleteId |-> OptInt(game.players[i].athleteId)])]),
           result |-> PStr(game.result),
           finalScore |-> PStr(game.finalScore),
           pointDifferential |-> PInt(game.pointDifferential),
           teamScore |-> PInt(game.teamScore),
           opponentScore |-> PInt(game.opponentScore)])

\* all_seasons_games[year] (fetch_gamelog_complete lines 367-373)
GameSeason(year, games) ==
  StrDict([season |-> PInt(year),
           seasonLabel |-> PStr(SeasonLabel(year)),
           team |-> PStr(TEAM),
           gameCount |-> PInt(Len(games)),
           games |-> PList([i \in 1..Len(games) |-> GameValue(games[i])])])

\* all_seasons_data[year] (fetch_playerstats_complete lines 288-294); of a
\* merged player the value keeps the identity fields.
PlayerSeason(year, count) ==
  StrDict([season |-> PInt(year),
           seasonLabel |-> PStr(SeasonLabel(year)),
           team |-> PStr(TEAM),
           playerCount |-> PInt(count),
           players |-> PList([i \in 1..count |->
                                StrDict([athleteId |-> PInt(i),
                                         name |-> PStr("Player " \o Str(i))])])])

\* The games of a season whose i-th game has the scores scores[i]: one
\* player log and one team log per game, through the pipeline of main.
SeasonGames(scores) ==
  GameLogPipeline(
    [i \in 1..Len(scores) |-> PlayerLog(Some(i), i)],
    [i \in 1..Len(scores) |->
       TeamLog([gameId |-> Some(i),
                teamStats |-> [shape |-> "numeric", total |-> scores[i][1]],
                opponentStats |-> [shape |-> "numeric", total |-> scores[i][2]]])]).value

\* Per season: no record (nothing fetched, the season is left out), or the
\* scores of its games.
SeasonScores ==
  {None} \cup {Some(s) : s \in SeqsUpTo(PointTotals \X PointTotals, MaxSeasonRecords)}

\* Per season: no record, or the number of its players.
SeasonPlayers == {0} \cup 1..MaxSeasonRecords

\* The poll dates of the rankings response, ISO texts in ascending order:
\* a date is modelled by its position here, which orders as its text does.
PollDates == <<"2025-11-03", "2025-11-10">>

\* The schools of the rankings response.
RankedSchools ==
  {<<"U", "C", "o", "n", "n">>, <<"S", "t", ".", " ", "J", "o", "h", "n", "'", "s">>}

\* The entries of the rankings response: the ranking is null, in 1..25 or
\* beyond.
RankingEntries ==
  [season : {END_YEAR}, week : 1..2, pollDate : 1..Len(PollDates),
   team : RankedSchools, ranking : {None, Some(1), Some(26)},
   points : {Some(1500)}]

\* d[k] = v
Put(d, k, v) == [x \in DOMAIN d \cup {k} |-> IF x = k THEN v ELSE d[x]]

\* latest_date is None or poll_date > latest_date (line 92).
NewerPollFirstOnly(poll_date, latest_date) == IsNone(latest_date)
NewerPoll(poll_date, latest_date) ==
  IsNone(latest_date) \/ poll_date > Val(latest_date)

\* rank is not None and 1 <= rank <= 25 (line 104).
IsRankedAny(rank) == ~IsNone(rank)
IsRanked(rank) == ~IsNone(rank) /\ 1 <= Val(rank) /\ Val(rank) <= 25

RECURSIVE RankingsFrom(_, _, _, _, _)
\* The loop of process_rankings from entry i on (lines 85-110).
RankingsFrom(raw_data, i, weeks, latest_week, latest_date) ==
  IF i > Len(raw_data)
  THEN [weeks |-> weeks, latest_week |-> latest_week, latest_date |-> latest_date]
  ELSE LET entry == raw_data[i]
           rank == entry.ranking
           newer == NewerPoll(entry.pollDate, latest_date)
           opened == IF entry.week \in DOMAIN weeks THEN weeks
                     ELSE Put(weeks, entry.week,
                              [pollDate |-> entry.pollDate, teams |-> EmptyDict])
           stored == IF IsRanked(rank)
                     THEN [opened EXCEPT ![entry.week].teams =
                             Put(@, normalize_team_name(entry.team),
                                 [rank |-> Val(rank), school |-> entry.team,
                                  points |-> Val(entry.points)])]
                     ELSE opened
       IN RankingsFrom(raw_data, i + 1, stored,
                       IF newer THEN Some(entry.week) ELSE latest_week,
                       IF newer THEN Some(entry.pollDate) ELSE latest_date)

\* process_rankings: None for an empty response, else poll_info.
process_rankings(raw_data) ==
  IF raw_data = <<>> THEN None
  ELSE LET r == RankingsFrom(raw_data, 1, EmptyDict, None, None)
       IN Some([season |-> raw_data[1].season,
                latestWeek |-> Val(r.latest_week),
                latestPollDate |-> Val(r.latest_date),
                currentRankings |-> r.weeks[Val(r.latest_week)].teams,
                weeklyRankings |-> r.weeks])

\* A teams map as a Python value, keyed by the normalized name.
TeamsValue(teams) ==
  PDict([k \in {PStr(JoinChars(n)) : n \in DOMAIN teams} |->
           LET team == teams[CHOOSE n \in DOMAIN teams : JoinChars(n) = k.s]
           IN StrDict([rank |-> PInt(team.rank),
                       school |-> PStr(JoinChars(team.school)),
                       points |-> PInt(team.points)])])

\* poll_info as a Python value: 'weeklyRankings' is keyed by the int week
\* of the entries.
RankingsValue(poll_info) ==
  StrDict([season |-> PInt(poll_info.season),
           latestWeek |-> PInt(poll_info.latestWeek),
           latestPollDate |-> PStr(PollDates[poll_info.latestPollDate]),
           lastUpdated |-> PStr(NowIso),
           currentRankings |-> TeamsValue(poll_info.currentRankings),
           weeklyRankings |->
             IntDict([w \in DOMAIN poll_info.weeklyRankings |->
                        StrDict([pollDate |-> PStr(PollDates[poll_info.weeklyRankings[w].pollDate]),
                                 teams |-> TeamsValue(poll_info.weeklyRankings[w].teams)])])])

\* The results of the schedule entries.
ScheduleResults == {"TBD", "W 78-65", "L 65-78"}

\* The schedule list of update_schedule_file: read from the file by
\* json.load, so keyed by str throughout.
ScheduleValue(results) ==
  PList([i \in 1..Len(results) |->
           StrDict([date |-> PStr("November 4, 2025"),
                    opponent |-> PStr("vs Duke"),
                    result |-> PStr(results[i])])])

InitPersist ==
  /\ ps = [pc |-> "start", writer |-> "none", doc |-> PNone,
           file |-> JNull, back |-> PNone]
  /\ rk = Idle /\ ms = Idle /\ nm = Idle /\ mt = Idle /\ gl = Idle /\ up = Idle /\ ft = Idle /\ pl = Idle /\ sc = Idle /\ rn = Idle

\* json.dump(doc, f) of writer.
Written(writer, doc) ==
  [ps EXCEPT !.pc = "written", !.writer = writer, !.doc = doc,
             !.file = JsonDump(doc)]

\* fetch_gamelog_complete.main, lines 377-393.
DumpGamelog ==
  /\ ps.pc = "start"
  /\ \E scores \in [Years -> SeasonScores] :
       LET fetched == {y \in Years : ~IsNone(scores[y])}
       IN ps' = Written("fetch_gamelog_complete",
                  SeasonsOutput([y \in fetched |->
                                   GameSeason(y, SeasonGames(Val(scores[y])))]))
  /\ UNCHANGED <<rk, ms, nm, mt, gl, up, ft, pl, sc, rn>>

\* fetch_playerstats_complete.main, lines 298-321.
DumpPlayerStats ==
  /\ ps.pc = "start"
  /\ \E counts \in [Years -> SeasonPlayers] :
       LET fetched == {y \in Years : counts[y] > 0}
       IN ps' = Written("fetch_playerstats_complete",
                  SeasonsOutput([y \in fetched |-> PlayerSeason(y, counts[y])]))
  /\ UNCHANGED <<rk, ms, nm, mt, gl, up, ft, pl, sc, rn>>

\* fetch_rankings.main, lines 148-151: process_rankings, then
\* save_rankings.
SaveRankings ==
  /\ ps.pc = "start"
  /\ \E raw_data \in SeqsUpTo(RankingEntries, MaxRankingEntries) :
       /\ raw_data # <<>>
       /\ ps' = Written("fetch_rankings",
                        RankingsValue(Val(process_rankings(raw_data))))
  /\ UNCHANGED <<rk, ms, nm, mt, gl, up, ft, pl, sc, rn>>

\* update-schedule-results.update_schedule_file, lines 201-203.
DumpSchedule ==
  /\ ps.pc = "start"
  /\ \E results \in SeqsUpTo(ScheduleResults, MaxSeasonRecords) :
       /\ \E i \in 1..Len(results) : results[i] # "TBD"
       /\ ps' = Written("update_schedule_results", ScheduleValue(results))
  /\ UNCHANGED <<rk, ms, nm, mt, gl, up, ft, pl, sc, rn>>

\* json.load(f) of the file just written.
LoadBack ==
  /\ ps.pc = "written"
  /\ ps' = [ps EXCEPT !.pc = "read", !.back = JsonLoad(ps.file)]
  /\ UNCHANGED <<rk, ms, nm, mt, gl, up, ft, pl, sc, rn>>

NextPersist ==
  \/ DumpGamelog
  \/ DumpPlayerStats
  \/ SaveRankings
  \/ DumpSchedule
  \/ LoadBack

SpecPersist == InitPersist /\ [][NextPersist]_vars

\* C9: reading back the file a script wrote yields a value equal to the
\* document that was written.
C9_RoundTripEqual ==
  ps.pc = "read" => ps.back = ps.doc


(***************************************************************************)
(* The updaters of the JSON state files: update-team-stats.py,             *)
(* update-basketball-data.py and update-schedule-results.py.  A file is    *)
(* absent, holds text that is not JSON, or holds a JSON value; the         *)
(* updaters work on the Python value json.load makes of it.                *)
(***************************************************************************)
FileAbsent == [kind |-> "absent", data |-> JNull]

FileMalformed == [kind |-> "malformed", data |-> JNull]

FileJson(data) == [kind |-> "json", data |-> data]

\* name in d, d[name] and d[name] = v for a dict d and a str key.
DictHas(d, name) == PStr(name) \in DOMAIN d.map

DictGet(d, name) == d.map[PStr(name)]

DictPut(d, name, v) == PDict(Put(d.map, PStr(name), v))

\* The result of an updater: its return value, the exception its handler
\* caught, and the file as it is afterwards.
UpdateDone(data) ==
  [ok |-> TRUE, error |-> "none", wrote |-> TRUE,
   file |-> FileJson(JsonDump(data))]

\* The return without a write before it: the file stays as it was.
UpdateKept(file) ==
  [ok |-> TRUE, error |-> "none", wrote |-> FALSE, file |-> file]

\* The return from an except block: nothing was written.
UpdateFailedFabricating(error, file) ==
  [ok |-> FALSE, error |-> error, wrote |-> TRUE,
   file |-> FileJson(JsonDump(PDict(EmptyDict)))]
UpdateFailed(error, file) ==
  [ok |-> FALSE, error |-> error, wrote |-> FALSE, file |-> file]

\* The exception of open(path, 'r') and json.load(f), "none" when the file
\* holds JSON.
LoadError(file) ==
  CASE file.kind = "absent" -> "FileNotFoundError"
    [] file.kind = "malformed" -> "JSONDecodeError"
    [] file.kind = "json" -> "none"

\* {'stats': {}, 'rankings': {}}
EmptySeasonWithoutRankings == StrDict([stats |-> PDict(EmptyDict)])
EmptySeason == StrDict([stats |-> PDict(EmptyDict), rankings |-> PDict(EmptyDict)])

\* if '2025' not in data: data['2025'] = {'stats': {}, 'rankings': {}}
EnsureSeason(data) ==
  IF DictHas(data, "2025") THEN data ELSE DictPut(data, "2025", EmptySeason)

\* data['2025']['stats'] = stats
SetStatsAlone(season, stats) == StrDict([stats |-> stats])
SetStats(season, stats) == DictPut(season, "stats", stats)

\* update-team-stats.py: update_json_file
update_json_file(file, stats) ==
  IF LoadError(file) # "none" THEN UpdateFailed(LoadError(file), file)
  ELSE LET data == EnsureSeason(JsonLoad(file.data))
           season == DictGet(data, "2025")
       IN IF season.t # "dict" THEN UpdateFailed("TypeError", file)
          ELSE LET withStats == IF DictHas(season, "stats") THEN season
                                ELSE DictPut(season, "stats", PDict(EmptyDict))
               IN UpdateDone(DictPut(data, "2025", SetStats(withStats, stats)))

\* f"{x:.1f}" for x given in tenths.
FormatTenths(tenths) == Str(tenths \div 10) \o "." \o Str(tenths % 10)

\* {'value': value, 'rank': rank}
StatEntry(value, rank) == StrDict([value |-> PStr(value), rank |-> rank])

\* The assignments of update_stats_file, in order (adj_o, adj_d and ppg are
\* given in tenths, fg_pct in thousandths, so that fg_pct * 100 is in
\* tenths): each is the sub-object
\* ('stats' or 'rankings'), the key and the value.  rating and stat are the
\* API objects, dicts of their attributes; an absent object assigns
\* nothing.
RatingAssignments(rating) ==
  (IF "adj_o" \in DOMAIN rating
   THEN <<[section |-> "stats", key |-> "Offensive Rating",
           value |-> StatEntry(FormatTenths(rating["adj_o"]),
                               IF "adj_o_rank" \in DOMAIN rating
                               THEN PInt(rating["adj_o_rank"]) ELSE PStr("N/A"))]>>
   ELSE <<>>)
  \o
  (IF "adj_d" \in DOMAIN rating
   THEN <<[section |-> "stats", key |-> "Defensive Rating",
           value |-> StatEntry(FormatTenths(rating["adj_d"]),
                               IF "adj_d_rank" \in DOMAIN rating
                               THEN PInt(rating["adj_d_rank"]) ELSE PStr("N/A"))]>>
   ELSE <<>>)

StatAssignments(stat) ==
  (IF "wins" \in DOMAIN stat /\ "losses" \in DOMAIN stat
   THEN <<[section |-> "rankings", key |-> "Overall Record",
           value |-> PStr(Str(stat["wins"]) \o "-" \o Str(stat["losses"]))]>>
   ELSE <<>>)
  \o
  (IF "ppg" \in DOMAIN stat
   THEN <<[section |-> "stats", key |-> "Points Per Game",
           value |-> StatEntry(FormatTenths(stat["ppg"]), PStr("N/A"))]>>
   ELSE <<>>)
  \o
  (IF "fg_pct" \in DOMAIN stat
   THEN <<[section |-> "stats", key |-> "Field Goal %",
           value |-> StatEntry(FormatTenths(stat["fg_pct"]) \o "%", PStr("N/A"))]>>
   ELSE <<>>)

RECURSIVE AllRatingAssignments(_)
\* for rating in ratings_data['ratings']
AllRatingAssignments(ratings) ==
  IF ratings = <<>> THEN <<>>
  ELSE RatingAssignments(Head(ratings)) \o AllRatingAssignments(Tail(ratings))

RECURSIVE AllStatAssignments(_)
\* for stat in stats_data['stats']
AllStatAssignments(stats) ==
  IF stats = <<>> THEN <<>>
  ELSE StatAssignments(Head(stats)) \o AllStatAssignments(Tail(stats))

RECURSIVE Assign(_, _, _)
\* existing_data['2025'][section][key] = value for the assignments from i
\* on: the data, or the exception of the first that fails ('2025' is not a
\* dict, or lacks the section, or the section is not a dict).
Assign(data, assignments, i) ==
  IF i > Len(assignments) THEN [error |-> "none", data |-> data]
  ELSE LET a == assignments[i]
           season == DictGet(data, "2025")
       IN IF season.t # "dict" THEN [error |-> "TypeError", data |-> data]
          ELSE IF ~DictHas(season, a.section) THEN [error |-> "KeyError", data |-> data]
          ELSE IF DictGet(season, a.section).t # "dict"
          THEN [error |-> "TypeError", data |-> data]
          ELSE Assign(DictPut(data, "2025",
                        DictPut(season, a.section,
                          DictPut(DictGet(season, a.section), a.key, a.value))),
                      assignments, i + 1)

\* update-basketball-data.py: update_stats_file.  ratings and stats are
\* the lists of API objects ('ratings_data.get("ratings")' and
\* 'stats_data.get("stats")'), empty when the fetch gave nothing.
update_stats_file(file, stats, ratings) ==
  IF LoadError(file) # "none" THEN UpdateFailed(LoadError(file), file)
  ELSE LET data == EnsureSeason(JsonLoad(file.data))
           assignments == AllRatingAssignments(ratings) \o AllStatAssignments(stats)
           assigned == Assign(data, assignments, 1)
       IN IF assigned.error # "none" THEN UpdateFailed(assigned.error, file)
          ELSE UpdateDone(assigned.data)


\* game.get('result', 'TBD')
CurrentResult(game) ==
  IF DictHas(game, "result") THEN DictGet(game, "result") ELSE PStr("TBD")

\* game.get('exh', False) is truthy
IsExhibitionNever(game) == FALSE
IsExhibition(game) ==
  DictHas(game, "exh") /\ DictGet(game, "exh") = PBool(TRUE)

\* The schedule entry as match_game_by_opponent_and_date reads it.
ScheduleGame(game) ==
  [opponent |-> DictGet(game, "opponent").s, date |-> DictGet(game, "date").s]

\* game['result'] = result, on entry i of the loaded schedule.
AppendResult(schedule, i, result) ==
  Append(schedule, DictPut(schedule[i], "result", PStr(result)))
SetResult(schedule, i, result) ==
  [schedule EXCEPT ![i] = DictPut(schedule[i], "result", PStr(result))]

RECURSIVE UpdateResultsFrom(_, _, _, _)
\* The loop of update-schedule-results.update_schedule_file from entry i on
\* (lines 181-198): the schedule, the number of updates, or the exception.
UpdateResultsFrom(schedule, api_games, i, updates_made) ==
  IF i > Len(schedule)
  THEN [error |-> "none", schedule |-> schedule, updates_made |-> updates_made]
  ELSE LET game == schedule[i]
           matched == match_game_by_opponent_and_date(ScheduleGame(game), api_games)
       IN IF IsExhibition(game) \/ CurrentResult(game) # PStr("TBD")
          THEN UpdateResultsFrom(schedule, api_games, i + 1, updates_made)
          ELSE IF matched = 0 \/ api_games[matched].result = "TBD"
          THEN UpdateResultsFrom(schedule, api_games, i + 1, updates_made)
          ELSE IF ~DictHas(game, "result")
          THEN [error |-> "KeyError", schedule |-> schedule, updates_made |-> updates_made]
          ELSE UpdateResultsFrom(SetResult(schedule, i, api_games[matched].result),
                                 api_games, i + 1, updates_made + 1)

\* update-schedule-results.py: update_schedule_file
update_schedule_results_file(file, api_games) ==
  IF LoadError(file) # "none" THEN UpdateFailed(LoadError(file), file)
  ELSE LET r == UpdateResultsFrom(JsonLoad(file.data).items, api_games, 1, 0)
       IN IF r.error # "none" THEN UpdateFailed(r.error, file)
          ELSE IF r.updates_made > 0 THEN UpdateDone(PList(r.schedule))
          ELSE UpdateKept(file)

\* The formats parse_schedule_date tries, in order.
ParseFormats == <<"%B %d, %Y", "%b %d, %Y", "%m/%d/%Y", "%Y-%m-%d">>

\* update-basketball-data.py: parse_schedule_date
parse_schedule_date(date_str) ==
  IF \E k \in 1..Len(ParseFormats) : ~IsNone(Strptime(date_str, ParseFormats[k]))
  THEN Strptime(date_str,
                ParseFormats[CHOOSE k \in 1..Len(ParseFormats) :
                               /\ ~IsNone(Strptime(date_str, ParseFormats[k]))
                               /\ \A j \in 1..(k - 1) :
                                    IsNone(Strptime(date_str, ParseFormats[j]))])
  ELSE None

\* api_games_by_date (lines 256-263): an API game is the dict of its
\* attributes, its game_date the day its ISO text names; the last game of
\* a day wins.
ApiGamesByDate(games) ==
  LET dated == {i \in 1..Len(games) : "game_date" \in DOMAIN games[i]}
  IN [day \in {games[i]["game_date"] : i \in dated} |->
        games[CHOOSE i \in dated :
                /\ games[i]["game_date"] = day
                /\ \A j \in dated : games[j]["game_date"] = day => j <= i]]

KENTUCKY_TEAM == "Kentucky"

\* new_result of a completed API game (lines 288-305).
NewResult(api_game) ==
  LET home_score == Get(api_game, "home_score", 0)
      away_score == Get(api_game, "away_score", 0)
      atHome == Get(api_game, "home_team", "") = KENTUCKY_TEAM
      kentucky_score == IF atHome THEN home_score ELSE away_score
      opponent_score == IF atHome THEN away_score ELSE home_score
  IN (IF kentucky_score > opponent_score THEN "W " ELSE "L ")
       \o Str(kentucky_score) \o "-" \o Str(opponent_score)

RECURSIVE UpdateByDateFrom(_, _, _, _)
\* The loop of update-basketball-data.update_schedule_file from entry i on
\* (lines 266-312): the schedule and the number of results changed.
UpdateByDateFrom(schedule, by_date, i, games_updated) ==
  IF i > Len(schedule) THEN [schedule |-> schedule, games_updated |-> games_updated]
  ELSE LET schedule_game == schedule[i]
           parsed == IF DictHas(schedule_game, "date")
                     THEN parse_schedule_date(DictGet(schedule_game, "date").s)
                     ELSE None
           found == ~IsNone(parsed) /\ Val(parsed).day \in DOMAIN by_date
       IN IF ~found THEN UpdateByDateFrom(schedule, by_date, i + 1, games_updated)
          ELSE LET api_game == by_date[Val(parsed).day]
               IN IF ~Get(api_game, "completed", FALSE)
                     \/ CurrentResult(schedule_game) = PStr(NewResult(api_game))
                  THEN UpdateByDateFrom(schedule, by_date, i + 1, games_updated)
                  ELSE UpdateByDateFrom(SetResult(schedule, i, NewResult(api_game)),
                                        by_date, i + 1, games_updated + 1)

\* update-basketball-data.py: update_schedule_file
update_schedule_file(file, games) ==
  IF LoadError(file) # "none" THEN UpdateFailed(LoadError(file), file)
  ELSE IF games = <<>> THEN UpdateKept(file)
  ELSE LET r == UpdateByDateFrom(JsonLoad(file.data).items, ApiGamesByDate(games), 1, 0)
       IN IF r.games_updated > 0 THEN UpdateDone(PList(r.schedule))
          ELSE UpdateKept(file)


\* The number of entries of the schedule file.
MaxScheduleEntries == 1

\* update.json as the updaters find it: the season "2024" beside a season
\* "2025" that is absent, null, or a dict with or without its 'stats' and
\* 'rankings'.
TempoEntry == StatEntry("68.1", PInt(40))

SiblingSeason == StrDict([stats |-> StrDict([Tempo |-> TempoEntry])])

SeasonShapes == {"absent", "null", "empty", "stats_only", "rankings_only", "full"}

OldStats == PDict(Put(Put(EmptyDict, PStr("Tempo"), TempoEntry),
                      PStr("Offensive Rating"), StatEntry("101.0", PInt(90))))

OldRankings == PDict(Put(EmptyDict, PStr("AP Poll"), PStr("5")))

UpdateDoc(shape) ==
  LET others == PDict(Put(EmptyDict, PStr("2024"), SiblingSeason))
  IN CASE shape = "absent" -> others
       [] shape = "null" -> DictPut(others, "2025", PNone)
       [] shape = "empty" -> DictPut(others, "2025", PDict(EmptyDict))
       [] shape = "stats_only" -> DictPut(others, "2025", StrDict([stats |-> OldStats]))
       [] shape = "rankings_only" ->
            DictPut(others, "2025", StrDict([rankings |-> OldRankings]))
       [] shape = "full" ->
            DictPut(others, "2025",
                    StrDict([stats |-> OldStats, rankings |-> OldRankings,
                             notes |-> PStr("preseason")]))

UpdateFiles ==
  {FileAbsent, FileMalformed}
    \cup {FileJson(JsonDump(UpdateDoc(shape))) : shape \in SeasonShapes}

\* The stats calculate_team_stats hands to update_json_file.
NewStatsChoices == {"one", "two"}

NewStats(choice) ==
  CASE choice = "one" ->
         PDict(Put(EmptyDict, PStr("Offensive Rating"), StatEntry("118.2", PInt(5))))
    [] choice = "two" ->
         PDict(Put(Put(EmptyDict, PStr("Offensive Rating"), StatEntry("118.2", PInt(5))),
                   PStr("Defensive Rating"), StatEntry("95.4", PInt(12))))

\* The API objects of update-basketball-data.py (tenths; fg_pct in
\* thousandths).
RatingShapes == {"offense_only", "ranked", "unranked"}

Rating(shape) ==
  CASE shape = "offense_only" -> [adj_o |-> 1182]
    [] shape = "ranked" ->
         [adj_o |-> 1182, adj_o_rank |-> 5, adj_d |-> 954, adj_d_rank |-> 12]
    [] shape = "unranked" -> [adj_o |-> 1182, adj_d |-> 954]

StatShapes == {"record_only", "wins_only", "all"}

Stat(shape) ==
  CASE shape = "record_only" -> [wins |-> 10, losses |-> 2]
    [] shape = "wins_only" -> [wins |-> 10]
    [] shape = "all" -> [wins |-> 10, losses |-> 2, ppg |-> 823, fg_pct |-> 455]

\* fetch_ratings and fetch_team_stats: None (here the empty list), or the
\* non-empty response.
RatingsResponses == {<<>>} \cup {<<Rating(shape)>> : shape \in RatingShapes}

StatsResponses == {<<>>} \cup {<<Stat(shape)>> : shape \in StatShapes}

\* The entries of 2025-schedule.json.
EntryShapes == {"tbd", "played", "no_result", "exhibition", "short_date"}

ScheduleEntry(shape) ==
  LET opponent == PStr(<<"v", "s", " ", "D", "u", "k", "e">>)
      long == PStr([fmt |-> "%B %d, %Y", day |-> ScheduleDay])
  IN CASE shape = "tbd" ->
            StrDict([date |-> long, opponent |-> opponent, result |-> PStr("TBD")])
       [] shape = "played" ->
            StrDict([date |-> long, opponent |-> opponent, result |-> PStr("L 60-70")])
       [] shape = "no_result" -> StrDict([date |-> long, opponent |-> opponent])
       [] shape = "exhibition" ->
            StrDict([date |-> long, opponent |-> opponent, result |-> PStr("TBD"),
                     exh |-> PBool(TRUE)])
       [] shape = "short_date" ->
            StrDict([date |-> PStr([fmt |-> "%b %d", day |-> ScheduleDay]),
                     opponent |-> opponent, result |-> PStr("TBD")])

ScheduleLists ==
  UNION {[1..n -> {ScheduleEntry(shape) : shape \in EntryShapes}] :
           n \in 0..MaxScheduleEntries}

ScheduleFiles ==
  {FileAbsent, FileMalformed}
    \cup {FileJson(JsonDump(PList(entries))) : entries \in ScheduleLists}

\* The games fetch_kentucky_games returns: none, or the Duke game.
ApiResults == {"TBD", "W 78-65"}

ApiGameLists ==
  {<<>>} \cup {<<[opponent |-> <<"D", "u", "k", "e">>,
                  date |-> [day |-> day, secs |-> 0], result |-> result]>> :
                 day \in {ScheduleDay, ScheduleDay + 2}, result \in ApiResults}

\* The games of the CBBD client, the dicts of their attributes.
CbbdGameShapes == {"won_at_home", "lost_away", "scheduled", "undated"}

CbbdGame(shape) ==
  CASE shape = "won_at_home" ->
         [game_date |-> ScheduleDay, completed |-> TRUE, home_team |-> KENTUCKY_TEAM,
          away_team |-> "Duke", home_score |-> 78, away_score |-> 65]
    [] shape = "lost_away" ->
         [game_date |-> ScheduleDay, completed |-> TRUE, home_team |-> "Duke",
          away_team |-> KENTUCKY_TEAM, home_score |-> 78, away_score |-> 65]
    [] shape = "scheduled" ->
         [game_date |-> ScheduleDay, completed |-> FALSE, home_team |-> KENTUCKY_TEAM,
          away_team |-> "Duke"]
    [] shape = "undated" ->
         [completed |-> TRUE, home_team |-> KENTUCKY_TEAM, away_team |-> "Duke",
          home_score |-> 78, away_score |-> 65]

\* fetch_schedule: None, or the non-empty response.
CbbdResponses == {None} \cup {Some(<<CbbdGame(shape)>>) : shape \in CbbdGameShapes}

\* The return value of an updater.  The state holds, beside the two files
\* before and after the run, what each updater returned ("not called" when
\* main did not call it), the (section, key) pairs update_stats_file
\* assigned, and the exit code.  get_api_configuration, which every fetch
\* function of these scripts calls first, prints a warning when
\* BASKETBALL_API_KEY is not set and returns the configuration all the same.
ReturnValue(result) == IF result.ok THEN "True" ELSE "False"

InitUpdate ==
  /\ \E update_file \in UpdateFiles, schedule_file \in ScheduleFiles,
        key_set \in BOOLEAN :
       up = [pc |-> "start", script |-> "none", key_set |-> key_set,
             warned |-> FALSE,
             update_before |-> update_file, schedule_before |-> schedule_file,
             update_file |-> update_file, schedule_file |-> schedule_file,
             stats_updated |-> "not called", schedule_updated |-> "not called",
             assigned |-> {}, exit |-> -1]
  /\ rk = Idle /\ ms = Idle /\ nm = Idle /\ mt = Idle /\ ps = Idle /\ gl = Idle
  /\ ft = Idle /\ pl = Idle /\ sc = Idle /\ rn = Idle

\* update-team-stats.py: main.
RunUpdateTeamStats ==
  /\ up.pc = "start"
  /\ \E uk_efficiency \in BOOLEAN, all_efficiency \in BOOLEAN,
        choice \in NewStatsChoices :
       IF ~uk_efficiency \/ ~all_efficiency
       THEN up' = [up EXCEPT !.pc = "done", !.warned = ~up.key_set, !.script = "update-team-stats", !.exit = 1]
       ELSE LET result == update_json_file(up.update_file, NewStats(choice))
            IN up' = [up EXCEPT !.pc = "done", !.warned = ~up.key_set, !.script = "update-team-stats",
                                !.update_file = result.file,
                                !.stats_updated = ReturnValue(result),
                                !.exit = IF result.ok THEN 0 ELSE 1]
  /\ UNCHANGED <<rk, ms, nm, mt, ps, gl, ft, pl, sc, rn>>

\* update-basketball-data.py: main.
RunUpdateBasketballData ==
  /\ up.pc = "start"
  /\ \E stats \in StatsResponses, ratings \in RatingsResponses,
        games \in CbbdResponses :
       LET fetched == stats # <<>> \/ ratings # <<>>
           statsResult == update_stats_file(up.update_file, stats, ratings)
           scheduleResult == update_schedule_file(up.schedule_file, Val(games))
           statsOk == fetched /\ statsResult.ok
           scheduleOk == ~IsNone(games) /\ scheduleResult.ok
       IN up' = [up EXCEPT
                   !.pc = "done", !.warned = ~up.key_set,
                   !.script = "update-basketball-data",
                   !.update_file = IF fetched THEN statsResult.file ELSE @,
                   !.stats_updated = IF fetched THEN ReturnValue(statsResult) ELSE @,
                   !.schedule_file = IF IsNone(games) THEN @ ELSE scheduleResult.file,
                   !.schedule_updated =
                      IF IsNone(games) THEN @ ELSE ReturnValue(scheduleResult),
                   !.assigned =
                      IF fetched
                      THEN LET all == AllRatingAssignments(ratings)
                                        \o AllStatAssignments(stats)
                           IN {<<all[i].section, all[i].key>> : i \in 1..Len(all)}
                      ELSE @,
                   !.exit = IF statsOk /\ scheduleOk THEN 0 ELSE 1]
  /\ UNCHANGED <<rk, ms, nm, mt, ps, gl, ft, pl, sc, rn>>

\* update-schedule-results.py: main.
RunUpdateScheduleResults ==
  /\ up.pc = "start"
  /\ \E api_games \in ApiGameLists :
       IF api_games = <<>>
       THEN up' = [up EXCEPT !.pc = "done", !.warned = ~up.key_set, !.script = "update-schedule-results",
                             !.exit = 1]
       ELSE LET result == update_schedule_results_file(up.schedule_file, api_games)
            IN up' = [up EXCEPT !.pc = "done", !.warned = ~up.key_set, !.script = "update-schedule-results",
                                !.schedule_file = result.file,
                                !.schedule_updated = ReturnValue(result),
                                !.exit = IF result.ok THEN 0 ELSE 1]
  /\ UNCHANGED <<rk, ms, nm, mt, ps, gl, ft, pl, sc, rn>>

NextUpdate ==
  \/ RunUpdateTeamStats
  \/ RunUpdateBasketballData
  \/ RunUpdateScheduleResults

SpecUpdate == InitUpdate /\ [][NextUpdate]_vars


\* The document of a file that holds JSON.
Loaded(file) == JsonLoad(file.data)

StatsUpdaters == {"update-team-stats", "update-basketball-data"}

\* A stats updater ran on update.json and returned True.
StatsUpdated ==
  /\ up.pc = "done" /\ up.script \in StatsUpdaters
  /\ up.stats_updated = "True"

\* name is a key of the dict d and holds a dict.
HoldsDict(d, name) == DictHas(d, name) /\ DictGet(d, name).t = "dict"

\* C11: when update.json has no "2025" key, a successful run of a stats
\* updater (update_json_file, update_stats_file) leaves "2025" holding
\* both a 'stats' and a 'rankings' sub-object.
C11_SeasonCreatedWithBoth ==
  (StatsUpdated /\ ~DictHas(Loaded(up.update_before), "2025"))
    => /\ HoldsDict(Loaded(up.update_file), "2025")
       /\ HoldsDict(DictGet(Loaded(up.update_file), "2025"), "stats")
       /\ HoldsDict(DictGet(Loaded(up.update_file), "2025"), "rankings")

\* update-team-stats.py created "2025" and stored its stats there.
C11_Witness ==
  /\ StatsUpdated /\ up.script = "update-team-stats"
  /\ ~DictHas(Loaded(up.update_before), "2025")
  /\ DictHas(DictGet(DictGet(Loaded(up.update_file), "2025"), "stats"),
             "Offensive Rating")

\* The members of the dict d other than those named in assigned.
Others(d, assigned) ==
  [k \in {x \in DOMAIN d.map : x.s \notin assigned} |-> d.map[k]]

\* d[name] when it is a dict, else the empty dict.
SubDict(d, name) == IF HoldsDict(d, name) THEN DictGet(d, name) ELSE PDict(EmptyDict)

AssignedIn(section) == {pair[2] : pair \in {p \in up.assigned : p[1] = section}}

\* C12: a successful stats update leaves the siblings as they were: after
\* update_json_file every top-level key other than "2025" and every key of
\* "2025" other than 'stats' (the pre-existing 'rankings' among them);
\* after update_stats_file every key other than the 'stats' and 'rankings'
\* entries it assigned.
C12_SiblingsUntouched ==
  StatsUpdated
    => LET before == Loaded(up.update_before)
           after == Loaded(up.update_file)
           seasonBefore == SubDict(before, "2025")
           seasonAfter == SubDict(after, "2025")
       IN /\ Others(before, {"2025"}) = Others(after, {"2025"})
          /\ DictHas(before, "2025")
               => /\ Others(seasonBefore, {"stats", "rankings"})
                       = Others(seasonAfter, {"stats", "rankings"})
                  /\ up.script = "update-team-stats"
                       => Others(seasonBefore, {"stats"}) = Others(seasonAfter, {"stats"})
                  /\ up.script = "update-basketball-data"
                       => \A section \in {"stats", "rankings"} :
                            Others(SubDict(seasonBefore, section), AssignedIn(section))
                              = Others(SubDict(seasonAfter, section), AssignedIn(section))

\* A season with rankings, notes and old stats got new stats.
C12_Witness ==
  /\ StatsUpdated
  /\ HoldsDict(Loaded(up.update_before), "2025")
  /\ DictHas(DictGet(Loaded(up.update_before), "2025"), "rankings")
  /\ DictHas(DictGet(Loaded(up.update_before), "2025"), "notes")
  /\ Loaded(up.update_file) # Loaded(up.update_before)

\* C13: an updater called on a file that does not exist proceeds from an
\* empty document: it returns True and the file exists afterwards.
C13_AbsentFileCreated ==
  up.pc = "done"
    => /\ (up.update_before = FileAbsent /\ up.stats_updated # "not called")
            => up.stats_updated = "True" /\ up.update_file.kind = "json"
       /\ (up.schedule_before = FileAbsent /\ up.schedule_updated # "not called")
            => up.schedule_updated = "True" /\ up.schedule_file.kind = "json"

\* C14: an updater called on a malformed file returns False, main returns
\* exit code 1, and the file is left as it was.
C14_MalformedAborts ==
  up.pc = "done"
    => /\ (up.update_before = FileMalformed /\ up.stats_updated # "not called")
            => /\ up.stats_updated = "False" /\ up.exit = 1
               /\ up.update_file = FileMalformed
       /\ (up.schedule_before = FileMalformed /\ up.schedule_updated # "not called")
            => /\ up.schedule_updated = "False" /\ up.exit = 1
               /\ up.schedule_file = FileMalformed

\* update-schedule-results.py found its schedule file malformed.
C14_Witness ==
  /\ up.pc = "done" /\ up.script = "update-schedule-results"
  /\ up.schedule_before = FileMalformed /\ up.schedule_updated = "False"
  /\ up.exit = 1 /\ up.schedule_file = FileMalformed


(***************************************************************************)
(* The fetch scripts: fetch_playerstats_complete.py, fetch_roster.py,      *)
(* fetch_gamelog_complete.py, fetch_schedule.py and fetch_rankings.py.     *)
(* Each main fetches season by season, processes what it got and writes    *)
(* its output; the state holds the position in that loop.  What the        *)
(* request ends in is an input of every fetch, and so is the requests      *)
(* library the script runs with: the scripts pin no version, and           *)
(* response.json() raises requests.exceptions.JSONDecodeError (a           *)
(* RequestException) from requests 2.27 on, a plain ValueError before.     *)
(***************************************************************************)
\* The seasons of a script's loop that are followed.
MaxSeasons == 2

FetchScripts ==
  {"fetch_playerstats_complete", "fetch_roster", "fetch_gamelog_complete",
   "fetch_schedule", "fetch_rankings"}

\* How a request ends: a non-empty JSON value, an empty JSON list, a
\* transport error, a status that is not 2xx, a body that is not JSON.
Outcomes == {"data", "empty", "transport", "status", "not_json"}

ErrorOutcomes == {"transport", "status", "not_json"}

Builds == {"requests before 2.27", "requests 2.27 or later"}

\* get_headers: the exception raised, "none" when the key is set.
get_headers_unchecked(key_set) == "none"
get_headers(key_set) == IF key_set THEN "none" ELSE "ValueError"

\* The exception requests.get, raise_for_status or response.json() raises,
\* "none" when the body is returned.
RequestError(outcome, build) ==
  CASE outcome = "transport" -> "ConnectionError"
    [] outcome = "status" -> "HTTPError"
    [] outcome = "not_json" ->
         IF build = "requests 2.27 or later" THEN "requests.JSONDecodeError"
         ELSE "ValueError"
    [] OTHER -> "none"

\* except requests.exceptions.RequestException
IsRequestException(error) ==
  error \in {"ConnectionError", "HTTPError", "requests.JSONDecodeError"}

\* What a fetch function gives its caller; sent tells whether the request
\* was made.
FetchReturned(value) == [kind |-> "returned", value |-> value, sent |-> TRUE]

FetchRaised(error) == [kind |-> "raised", value |-> error, sent |-> TRUE]

HeadersRaised(error) == [kind |-> "raised", value |-> error, sent |-> FALSE]

\* The try block of a fetch function: the body on success, on_failure (the
\* value of the except block) for a RequestException, any other exception
\* propagates.  headers_error is the exception of building the headers,
\* which happens inside the try block.
TryRequest(headers_error, outcome, build, on_failure) ==
  IF headers_error # "none" THEN HeadersRaised(headers_error)
  ELSE IF RequestError(outcome, build) = "none"
  THEN FetchReturned(IF outcome = "data" THEN "data" ELSE "[]")
  ELSE IF IsRequestException(RequestError(outcome, build))
  THEN FetchReturned(on_failure)
  ELSE FetchRaised(RequestError(outcome, build))

\* fetch_gamelog_complete.py
fetch_player_game_logs(outcome, build) == TryRequest("none", outcome, build, "[]")

fetch_team_game_logs(outcome, build) == TryRequest("none", outcome, build, "[]")

\* fetch_playerstats_complete.py and fetch_roster.py
fetch_player_season_stats(key_set, outcome, build) ==
  TryRequest(get_headers(key_set), outcome, build, "[]")

fetch_player_shooting_stats(key_set, outcome, build) ==
  TryRequest(get_headers(key_set), outcome, build, "[]")

fetch_roster(key_set, outcome, build) ==
  TryRequest(get_headers(key_set), outcome, build, "None")

\* fetch_rankings.py
fetch_ap_rankings(outcome, build) == TryRequest("none", outcome, build, "None")

\* fetch_schedule.py: the key only decides which headers are sent.
fetch_schedule(outcome, build) == TryRequest("none", outcome, build, "None")

\* The fetch functions main calls for one season, in order.
CallsOf(script) ==
  CASE script = "fetch_playerstats_complete" ->
         <<"fetch_player_season_stats", "fetch_player_shooting_stats">>
    [] script = "fetch_roster" -> <<"fetch_roster", "fetch_player_season_stats">>
    [] script = "fetch_gamelog_complete" ->
         <<"fetch_player_game_logs", "fetch_team_game_logs">>
    [] script = "fetch_schedule" -> <<"fetch_schedule">>
    [] script = "fetch_rankings" -> <<"fetch_ap_rankings">>

\* The number of seasons of main's loop.
SeasonCount(script) ==
  CASE script = "fetch_playerstats_complete" -> END_YEAR - START_YEAR + 1
    [] script = "fetch_schedule" -> Len(<<2024, 2025>>)
    [] script = "fetch_rankings" -> 1
    [] OTHER -> MaxSeasons

\* The file main writes for a season with data, and at its end.
SeasonFile(script, season) ==
  IF script = "fetch_schedule"
  THEN {IF season = 1 THEN "2024-schedule.json" ELSE "2025-schedule.json"}
  ELSE IF script = "fetch_rankings" THEN {"ap-rankings.json"}
  ELSE {}

OutputFile(script) ==
  CASE script = "fetch_playerstats_complete" -> {"gamelog.json"}
    [] script = "fetch_roster" -> {"roster.json"}
    [] script = "fetch_gamelog_complete" -> {"gamelog.json"}
    [] OTHER -> {}

\* The processing of fetched data (merge_all_stats,
\* organize_complete_game_data, calculate_game_results, process_schedule,
\* process_rankings, build_player_history) returns or raises.
Processing == {"returns", "raises"}

NoFetch == [function |-> "none", outcome |-> "none", kind |-> "none", value |-> "none"]

InitFetch ==
  /\ \E script \in FetchScripts, key_set \in BOOLEAN, build \in Builds :
     \E argv_key \in IF script = "fetch_schedule" THEN BOOLEAN ELSE {FALSE} :
       ft = [pc |-> "start", script |-> script, key_set |-> key_set,
             argv_key |-> argv_key, build |-> build, season |-> 1, call |-> 1, results |-> <<>>,
             last |-> NoFetch, fetches |-> 0, failures |-> 0, success_count |-> 0,
             warned |-> FALSE, raised |-> "none", files |-> {}, exit |-> -1]
  /\ rk = Idle /\ ms = Idle /\ nm = Idle /\ mt = Idle /\ ps = Idle /\ gl = Idle
  /\ up = Idle /\ pl = Idle /\ sc = Idle /\ rn = Idle

\* The start of main: fetch_schedule.main takes its key from the
\* environment or else from the command line, and warns when it has none.
StartMain ==
  /\ ft.pc = "start"
  /\ ft' = [ft EXCEPT !.pc = "fetch",
                      !.warned = /\ ft.script = "fetch_schedule"
                                 /\ ~ft.key_set /\ ~ft.argv_key]
  /\ UNCHANGED <<rk, ms, nm, mt, ps, gl, up, pl, sc, rn>>

\* The state after main's call of a fetch function gave result: an
\* exception that propagates ends the process with exit code 1.
AfterFetch(function, outcome, result) ==
  IF result.kind = "raised"
  THEN [ft EXCEPT !.pc = "done", !.raised = result.value, !.exit = 1,
                  !.fetches = @ + 1,
                  !.last = [function |-> function,
                            outcome |-> IF result.sent THEN outcome ELSE "not sent",
                            kind |-> "raised", value |-> result.value]]
  ELSE [ft EXCEPT !.pc = IF ft.call = Len(CallsOf(ft.script)) THEN "process" ELSE "fetch",
                  !.call = @ + 1,
                  !.results = Append(@, result.value),
                  !.fetches = @ + 1,
                  !.failures = IF outcome \in ErrorOutcomes THEN @ + 1 ELSE @,
                  !.last = [function |-> function, outcome |-> outcome,
                            kind |-> "returned", value |-> result.value]]

\* main is at its call of function.
AtCall(function) ==
  /\ ft.pc = "fetch"
  /\ CallsOf(ft.script)[ft.call] = function

FetchPlayerGameLogs ==
  /\ AtCall("fetch_player_game_logs")
  /\ \E outcome \in Outcomes :
       ft' = AfterFetch("fetch_player_game_logs", outcome,
                        fetch_player_game_logs(outcome, ft.build))
  /\ UNCHANGED <<rk, ms, nm, mt, ps, gl, up, pl, sc, rn>>

FetchTeamGameLogs ==
  /\ AtCall("fetch_team_game_logs")
  /\ \E outcome \in Outcomes :
       ft' = AfterFetch("fetch_team_game_logs", outcome,
                        fetch_team_game_logs(outcome, ft.build))
  /\ UNCHANGED <<rk, ms, nm, mt, ps, gl, up, pl, sc, rn>>

FetchPlayerSeasonStats ==
  /\ AtCall("fetch_player_season_stats")
  /\ \E outcome \in Outcomes :
       ft' = AfterFetch("fetch_player_season_stats", outcome,
                        fetch_player_season_stats(ft.key_set, outcome, ft.build))
  /\ UNCHANGED <<rk, ms, nm, mt, ps, gl, up, pl, sc, rn>>

FetchPlayerShootingStats ==
  /\ AtCall("fetch_player_shooting_stats")
  /\ \E outcome \in Outcomes :
       ft' = AfterFetch("fetch_player_shooting_stats", outcome,
                        fetch_player_shooting_stats(ft.key_set, outcome, ft.build))
  /\ UNCHANGED <<rk, ms, nm, mt, ps, gl, up, pl, sc, rn>>

FetchRoster ==
  /\ AtCall("fetch_roster")
  /\ \E outcome \in Outcomes :
       ft' = AfterFetch("fetch_roster", outcome,
                        fetch_roster(ft.key_set, outcome, ft.build))
  /\ UNCHANGED <<rk, ms, nm, mt, ps, gl, up, pl, sc, rn>>

FetchApRankings ==
  /\ AtCall("fetch_ap_rankings")
  /\ \E outcome \in Outcomes :
       ft' = AfterFetch("fetch_ap_rankings", outcome,
                        fetch_ap_rankings(outcome, ft.build))
  /\ UNCHANGED <<rk, ms, nm, mt, ps, gl, up, pl, sc, rn>>

FetchSchedule ==
  /\ AtCall("fetch_schedule")
  /\ \E outcome \in Outcomes :
       ft' = AfterFetch("fetch_schedule", outcome, fetch_schedule(outcome, ft.build))
  /\ UNCHANGED <<rk, ms, nm, mt, ps, gl, up, pl, sc, rn>>

\* The rest of the loop body: a season whose first fetch gave data is
\* processed (fetch_roster.main only stores it, and processes after the
\* loop), which can raise; fetch_schedule.main and fetch_rankings.main save
\* the season's file.
ProcessSeason ==
  /\ ft.pc = "process"
  /\ \E processing \in Processing :
       LET has_data == ft.results[1] = "data"
           processed == has_data /\ ft.script # "fetch_roster"
           last_season == ft.season = SeasonCount(ft.script)
       IN IF processed /\ processing = "raises"
          THEN ft' = [ft EXCEPT !.pc = "done", !.raised = "processing", !.exit = 1]
          ELSE ft' = [ft EXCEPT
                        !.pc = IF last_season THEN "finish" ELSE "fetch",
                        !.season = @ + 1, !.call = 1, !.results = <<>>,
                        !.success_count = IF has_data THEN @ + 1 ELSE @,
                        !.files = IF has_data
                                  THEN @ \cup SeasonFile(ft.script, ft.season)
                                  ELSE @]
  /\ UNCHANGED <<rk, ms, nm, mt, ps, gl, up, pl, sc, rn>>

\* The end of main: fetch_roster.main enriches the rosters it stored, which
\* can raise; the output file is written; fetch_schedule.main exits with 1
\* when no season was successful.
FinishMain ==
  /\ ft.pc = "finish"
  /\ \E processing \in Processing :
       IF ft.script = "fetch_roster" /\ ft.success_count > 0 /\ processing = "raises"
       THEN ft' = [ft EXCEPT !.pc = "done", !.raised = "processing", !.exit = 1]
       ELSE ft' = [ft EXCEPT
                     !.pc = "done",
                     !.files = @ \cup OutputFile(ft.script),
                     !.exit = IF ft.script = "fetch_schedule" /\ ft.success_count = 0
                              THEN 1 ELSE 0]
  /\ UNCHANGED <<rk, ms, nm, mt, ps, gl, up, pl, sc, rn>>

NextFetch ==
  \/ StartMain
  \/ FetchPlayerGameLogs
  \/ FetchTeamGameLogs
  \/ FetchPlayerSeasonStats
  \/ FetchPlayerShootingStats
  \/ FetchRoster
  \/ FetchApRankings
  \/ FetchSchedule
  \/ ProcessSeason
  \/ FinishMain

SpecFetch == InitFetch /\ [][NextFetch]_vars


\* The scripts together: a run of a fetch script or of an updater.
InitScripts == InitFetch \/ InitUpdate

NextScripts == NextFetch \/ NextUpdate

SpecScripts == InitScripts /\ [][NextScripts]_vars

\* C15: fetch_schedule and fetch_rankings exit with 1 when a fetch of the
\* run failed (ended in an error and gave None).
C15_FailedFetchExitsOne ==
  (ft.pc = "done" /\ ft.script \in {"fetch_schedule", "fetch_rankings"}
     /\ ft.failures > 0)
    => ft.exit = 1

\* C16: a fetch whose request ended in a transport error, a status that
\* is not 2xx or a body that is not JSON returned [] or None to main.
C16_FetchReturnsEmptyOnError ==
  ft.last.outcome \in ErrorOutcomes
    => ft.last.kind = "returned" /\ ft.last.value \in {"[]", "None"}

KeyRequired == {"fetch_playerstats_complete", "fetch_roster"}

\* C17: with BASKETBALL_API_KEY unset, fetch_playerstats_complete and
\* fetch_roster end at their first fetch with the ValueError of
\* get_headers, exit code 1 and no file written; fetch_schedule (given no
\* key on the command line either) and the cbbd updaters warn and go on:
\* fetch_schedule fetches every season unless a fetch or the processing
\* raises for another reason, the updaters run to their exit code.
C17_KeyUnset ==
  /\ (ft.pc = "done" /\ ~ft.key_set /\ ft.script \in KeyRequired)
       => /\ ft.raised = "ValueError" /\ ft.fetches = 1 /\ ft.last.outcome = "not sent"
          /\ ft.files = {} /\ ft.exit = 1
  /\ (ft.pc = "done" /\ ~ft.key_set /\ ft.script = "fetch_schedule")
       => /\ ~ft.argv_key => ft.warned
          /\ ft.raised = "none" => ft.fetches = SeasonCount(ft.script)
          /\ ft.raised = "ValueError" => ft.last.outcome = "not_json"
  /\ (up.pc = "done" /\ ~up.key_set)
       => up.warned /\ up.exit \in {0, 1}

\* fetch_roster.main ended at its first fetch, before the request was
\* made.
C17_Witness ==
  /\ ft.pc = "done" /\ ~ft.key_set /\ ft.script = "fetch_roster"
  /\ ft.raised = "ValueError" /\ ft.last.function = "fetch_roster"
  /\ ft.last.outcome = "not sent" /\ ft.files = {}

(***************************************************************************)
(* fetch_rankings.py: process_rankings on the rankings response            *)
(***************************************************************************)
\* Bound: the most entries of the response that process_rankings is given.
MaxPollEntries == 2

\* The schools of the response: one with the punctuation that
\* normalize_team_name removes, one with punctuation it does not mention.
PollSchools ==
  {<<"S", "t", ".", " ", "J", "o", "h", "n", "'", "s">>,
   <<"T", "e", "x", "a", "s", " ", "A", "&", "M">>}

\* The rankings of the response: null, or an integer around the two ends
\* of 1..25.
PollRankings == {None, Some(0), Some(1), Some(25), Some(26)}

PollEntries ==
  [season : {END_YEAR}, week : 1..2, pollDate : 1..Len(PollDates),
   team : PollSchools, ranking : PollRankings, points : {Some(1500)}]

InitPolls ==
  /\ \E raw_data \in SeqsUpTo(PollEntries, MaxPollEntries) :
       pl = [pc |-> "call", raw_data |-> raw_data, poll_info |-> None]
  /\ rk = Idle /\ ms = Idle /\ nm = Idle /\ mt = Idle /\ ps = Idle /\ gl = Idle
  /\ up = Idle /\ ft = Idle /\ sc = Idle /\ rn = Idle

\* fetch_rankings.main, line 148: rankings = process_rankings(raw_data)
ProcessRankings ==
  /\ pl.pc = "call"
  /\ pl' = [pl EXCEPT !.pc = "done", !.poll_info = process_rankings(pl.raw_data)]
  /\ UNCHANGED <<rk, ms, nm, mt, ps, gl, up, ft, sc, rn>>

NextPolls == ProcessRankings

SpecPolls == InitPolls /\ [][NextPolls]_vars

\* poll_info was returned, for a response that is not empty.
PollsProcessed == pl.pc = "done" /\ ~IsNone(pl.poll_info)

\* The entries of the response for week w that hold a ranking in 1..25.
RankedEntriesOf(w) ==
  {i \in 1..Len(pl.raw_data) :
     /\ pl.raw_data[i].week = w
     /\ ~IsNone(pl.raw_data[i].ranking)
     /\ Val(pl.raw_data[i].ranking) \in 1..25}

\* The team keys of poll_info: those of every week and the current ones.
TeamKeys(poll_info) ==
  DOMAIN poll_info.currentRankings
    \cup UNION {DOMAIN poll_info.weeklyRankings[w].teams :
                  w \in DOMAIN poll_info.weeklyRankings}

Punctuation == {".", "'", "(", ")", "&", "-", ",", "!", "/"}

IsUpper(c) == \E i \in 1..Len(UpperCase) : UpperCase[i] = c

\* C24: every team key that process_rankings stores, under
\* weeklyRankings[week]['teams'] and under currentRankings, is the
\* normalize_team_name image of its entry's school and holds no uppercase
\* letter and no punctuation character, whatever the school's name.
C24_KeysLowercaseNoPunctuation ==
  PollsProcessed =>
    LET info == Val(pl.poll_info)
    IN /\ \A w \in DOMAIN info.weeklyRankings :
            \A key \in DOMAIN info.weeklyRankings[w].teams :
              key = normalize_team_name(info.weeklyRankings[w].teams[key].school)
       /\ \A key \in TeamKeys(info) :
            \A i \in 1..Len(key) : ~IsUpper(key[i]) /\ key[i] \notin Punctuation

\* C25: process_rankings keeps one snapshot per distinct week of the
\* response, latestPollDate is the greatest pollDate of the response,
\* latestWeek the week of an entry that carries it, and currentRankings is
\* the team map of that week, in whatever order the entries come.
C25_CurrentIsLatestWeek ==
  PollsProcessed =>
    LET info == Val(pl.poll_info)
        raw == pl.raw_data
    IN /\ DOMAIN info.weeklyRankings = {raw[i].week : i \in 1..Len(raw)}
       /\ \A i \in 1..Len(raw) : raw[i].pollDate <= info.latestPollDate
       /\ \E i \in 1..Len(raw) :
            raw[i].week = info.latestWeek /\ raw[i].pollDate = info.latestPollDate
       /\ info.currentRankings = info.weeklyRankings[info.latestWeek].teams

\* Two weeks, the later poll second in the response, both with a ranked
\* team: the current rankings are those of the second entry's week.
C25_Witness ==
  /\ PollsProcessed
  /\ Len(pl.raw_data) = 2
  /\ pl.raw_data[1].week # pl.raw_data[2].week
  /\ pl.raw_data[1].pollDate < pl.raw_data[2].pollDate
  /\ RankedEntriesOf(pl.raw_data[1].week) # {}
  /\ RankedEntriesOf(pl.raw_data[2].week) # {}
  /\ Val(pl.poll_info).latestWeek = pl.raw_data[2].week
  /\ Val(pl.poll_info).currentRankings # EmptyDict

\* C28: process_rankings stores ranked teams only: the team keys of a week
\* are those of its entries with a ranking in 1..25, every stored rank is an
\* integer in 1..25, and an entry whose ranking is absent or outside 1..25
\* adds no key, though its week is still created.
C28_OnlyRankedStored ==
  PollsProcessed =>
    LET info == Val(pl.poll_info)
        raw == pl.raw_data
    IN /\ \A i \in 1..Len(raw) : raw[i].week \in DOMAIN info.weeklyRankings
       /\ \A w \in DOMAIN info.weeklyRankings :
            LET teams == info.weeklyRankings[w].teams
            IN /\ DOMAIN teams =
                    {normalize_team_name(raw[i].team) : i \in RankedEntriesOf(w)}
               /\ \A key \in DOMAIN teams : teams[key].rank \in 1..25

\* A week whose only entry is ranked 26: the week is there, without a team.
C28_Witness ==
  /\ PollsProcessed
  /\ \E i \in 1..Len(pl.raw_data) :
       /\ pl.raw_data[i].ranking = Some(26)
       /\ RankedEntriesOf(pl.raw_data[i].week) = {}
       /\ pl.raw_data[i].week \in DOMAIN Val(pl.poll_info).weeklyRankings
       /\ Val(pl.poll_info).weeklyRankings[pl.raw_data[i].week].teams = EmptyDict
  /\ \E i \in 1..Len(pl.raw_data) : pl.raw_data[i].ranking = Some(25)

(***************************************************************************)
(* The files the fetch scripts write                                       *)
(***************************************************************************)
\* C23: gamelog.json is the file of the game-log fetcher alone: a script
\* that has written gamelog.json is fetch_gamelog_complete, so the file
\* holds the per-season game bundle ('games' with 'gameCount'), and the
\* player season stats of fetch_playerstats_complete go to another file.
C23_GamelogWrittenByGameLogFetcherOnly ==
  (ft.pc = "done" /\ "gamelog.json" \in ft.files) =>
    ft.script = "fetch_gamelog_complete"

(***************************************************************************)
(* fetch_schedule.py: get_game_result, format_date, process_schedule       *)
(*                                                                         *)
(* A start date of the API is a UTC date and hour; the 'date' text of a    *)
(* schedule entry ("Nov 15") is the month and day it names.                *)
(***************************************************************************)
\* Bound: the most games of the schedule response.
MaxRawGames == 2

\* kentucky_team_id
KENTUCKY_TEAM_ID == 135

\* An opponent's team id.
OPPONENT_TEAM_ID == 2

\* The season that process_schedule is given: Nov SEASON to Apr SEASON + 1.
SEASON == 2025

IsLeapYear(year) == year % 4 = 0 /\ (year % 100 # 0 \/ year % 400 = 0)

DaysInMonth(year, month) ==
  CASE month \in {4, 6, 9, 11} -> 30
    [] month = 2 -> IF IsLeapYear(year) THEN 29 ELSE 28
    [] OTHER -> 31

\* dt - timedelta(hours=5), on the date: the day before when the UTC hour
\* is earlier than 5.
EasternDate(dt) ==
  IF dt.hour >= 5 THEN [year |-> dt.year, month |-> dt.month, day |-> dt.day]
  ELSE IF dt.day > 1 THEN [year |-> dt.year, month |-> dt.month, day |-> dt.day - 1]
  ELSE IF dt.month > 1
       THEN [year |-> dt.year, month |-> dt.month - 1,
             day |-> DaysInMonth(dt.year, dt.month - 1)]
       ELSE [year |-> dt.year - 1, month |-> 12, day |-> 31]

\* format_date: None for an empty start date, else the texts of the
\* Eastern date; 'date' names month and day, 'full' the year as well.
format_date(start_date) ==
  IF IsNone(start_date) THEN None
  ELSE LET dt_est == EasternDate(Val(start_date))
       IN Some([date |-> [month |-> dt_est.month, day |-> dt_est.day],
                full |-> dt_est])

\* f"W {uk_score}-{opp_score}" and f"L {uk_score}-{opp_score}"
ResultText(letter, uk_score, opp_score) ==
  letter \o " " \o Str(uk_score) \o "-" \o Str(opp_score)

\* get_game_result
get_game_result(game) ==
  IF game.status # "final" THEN "TBD"
  ELSE LET at_home == game.homeTeamId = KENTUCKY_TEAM_ID
           uk_score == IF at_home THEN game.homePoints ELSE game.awayPoints
           opp_score == IF at_home THEN game.awayPoints ELSE game.homePoints
       IN IF uk_score > opp_score THEN ResultText("W", uk_score, opp_score)
          ELSE ResultText("L", uk_score, opp_score)

\* get_opponent_info(game)['name']
OpponentName(game) ==
  IF game.homeTeamId = KENTUCKY_TEAM_ID THEN game.awayTeam ELSE game.homeTeam

RECURSIVE ProcessedFrom(_, _)
\* The loop of process_schedule from game i on (lines 172-195).
ProcessedFrom(raw_data, i) ==
  IF i > Len(raw_data) THEN <<>>
  ELSE LET game == raw_data[i]
           date_info == format_date(game.startDate)
       IN IF IsNone(date_info) THEN ProcessedFrom(raw_data, i + 1)
          ELSE <<[date |-> Val(date_info).date,
                  opponent |-> OpponentName(game),
                  result |-> get_game_result(game),
                  exh |-> FALSE]>> \o ProcessedFrom(raw_data, i + 1)

\* datetime.strptime(date, "%b %d") raises for a day the month lacks in
\* 1900, the year of a date parsed without one.
StrptimeRaises(date) == date.day > DaysInMonth(1900, date.month)

\* The sort key of line 198: the date in 1900, as its day of that year
\* would order it.
SortKey(date) == date.month * 100 + date.day

RECURSIVE InsertByKey(_, _)
\* x put after the entries of the sorted s whose key is not greater.
InsertByKey(s, x) ==
  IF s = <<>> THEN <<x>>
  ELSE IF SortKey(x.date) < SortKey(Head(s).date) THEN <<x>> \o s
  ELSE <<Head(s)>> \o InsertByKey(Tail(s), x)

RECURSIVE SortByKey(_)
\* list.sort(key=...): ascending and stable.
SortByKey(s) ==
  IF s = <<>> THEN s
  ELSE InsertByKey(SortByKey(SubSeq(s, 1, Len(s) - 1)), s[Len(s)])

ScheduleOk(games) == [kind |-> "returned", games |-> games]
ScheduleRaised(error) == [kind |-> "raised", error |-> error]

\* process_schedule
process_schedule(raw_data) ==
  LET processed_games == ProcessedFrom(raw_data, 1)
  IN IF \E i \in 1..Len(processed_games) : StrptimeRaises(processed_games[i].date)
     THEN ScheduleRaised("ValueError")
     ELSE ScheduleOk(SortByKey(processed_games))

\* The start dates of the response: none, or a tip-off of the season, one
\* of them in the first hours of a UTC day and one on a UTC new year's day.
StartDates ==
  {None,
   Some([year |-> SEASON, month |-> 11, day |-> 5, hour |-> 0]),
   Some([year |-> SEASON, month |-> 12, day |-> 20, hour |-> 19]),
   Some([year |-> SEASON + 1, month |-> 1, day |-> 1, hour |-> 2]),
   Some([year |-> SEASON + 1, month |-> 3, day |-> 8, hour |-> 17])}

\* Status and points of a game of the response.
GameStates ==
  {[status |-> "scheduled", uk |-> 0, opp |-> 0],
   [status |-> "final", uk |-> 78, opp |-> 65],
   [status |-> "final", uk |-> 65, opp |-> 78]}

RawGame(opponent, start_date, state, at_home) ==
  [startDate |-> start_date, status |-> state.status,
   homeTeamId |-> IF at_home THEN KENTUCKY_TEAM_ID ELSE OPPONENT_TEAM_ID,
   homeTeam |-> IF at_home THEN "Kentucky" ELSE opponent,
   awayTeam |-> IF at_home THEN opponent ELSE "Kentucky",
   homePoints |-> IF at_home THEN state.uk ELSE state.opp,
   awayPoints |-> IF at_home THEN state.opp ELSE state.uk]

RawGames ==
  {RawGame("Duke", d, s, h) : d \in StartDates, s \in GameStates, h \in BOOLEAN}

InitSchedule ==
  /\ \E raw_data \in SeqsUpTo(RawGames, MaxRawGames) :
       sc = [pc |-> "call", raw_data |-> raw_data, processed |-> ScheduleOk(<<>>)]
  /\ rk = Idle /\ ms = Idle /\ nm = Idle /\ mt = Idle /\ ps = Idle /\ gl = Idle
  /\ up = Idle /\ ft = Idle /\ pl = Idle /\ rn = Idle

\* fetch_schedule.main, line 245: processed_data = process_schedule(...)
ProcessSchedule ==
  /\ sc.pc = "call"
  /\ sc' = [sc EXCEPT !.pc = "done", !.processed = process_schedule(sc.raw_data)]
  /\ UNCHANGED <<rk, ms, nm, mt, ps, gl, up, ft, pl, rn>>

NextSchedule == ProcessSchedule

SpecSchedule == InitSchedule /\ [][NextSchedule]_vars

\* The Eastern dates of the dated games of the response as numbers that
\* order as the calendar does, in the order of the response.
GameDates ==
  LET dated == SelectSeq(sc.raw_data, LAMBDA g : ~IsNone(g.startDate))
  IN [i \in 1..Len(dated) |->
        LET d == EasternDate(Val(dated[i].startDate))
        IN d.year * 10000 + d.month * 100 + d.day]

\* C26: process_schedule returns the entries sorted by game date, earliest
\* first, for a season that runs from November into March or April of the
\* next year: the dates of the entries are those of the games in calendar
\* order.
C26_SortedByGameDate ==
  sc.pc = "done" =>
    /\ sc.processed.kind = "returned"
    /\ LET games == sc.processed.games
           in_order == SortAsc(GameDates)
       IN /\ Len(games) = Len(in_order)
          /\ \A i \in 1..Len(games) :
               games[i].date = [month |-> (in_order[i] \div 100) % 100,
                                day |-> in_order[i] % 100]

(***************************************************************************)
(* The schedule file over several runs                                     *)
(*                                                                         *)
(* data/2025-schedule.json and data/update.json between the runs of        *)
(* fetch_schedule.py, update-schedule-results.py, update-basketball-data.py*)
(* and update-team-stats.py, against the games the API holds, which go     *)
(* from scheduled to final.  The state keeps, beside the files, what the   *)
(* last run found before it started.                                       *)
(***************************************************************************)
\* Bound: the most games the API holds for the season.
MaxUpstreamGames == 1

RECURSIVE DaysBefore(_, _)
\* The days from November 1 of SEASON to the first of the month.
DaysBefore(year, month) ==
  IF year = SEASON /\ month = 11 THEN 0
  ELSE IF month = 1 THEN DaysBefore(year - 1, 12) + DaysInMonth(year - 1, 12)
  ELSE DaysBefore(year, month - 1) + DaysInMonth(year, month - 1)

\* The day number of a date: ScheduleDay is November 4 of SEASON.
DayNumber(date) == DaysBefore(date.year, date.month) + date.day - 1

\* The day that the text of a 'date' without year names in the season.
TextDay(date) ==
  DayNumber([year |-> IF date.month >= 7 THEN SEASON ELSE SEASON + 1,
             month |-> date.month, day |-> date.day])

\* The tip-offs of the API games, in UTC: November 4 at 17:00, and the
\* evening of November 4 Eastern, which is November 5 at 00:00.
UpstreamStarts ==
  {[year |-> SEASON, month |-> 11, day |-> 4, hour |-> 17],
   [year |-> SEASON, month |-> 11, day |-> 5, hour |-> 0]}

UpstreamOpponents ==
  {<<"D", "u", "k", "e">>, <<"L", "o", "u", "i", "s", "v", "i", "l", "l", "e">>}

\* The fixtures of the API: Duke comes to Kentucky at either time,
\* Louisville is visited on November 4.
UpstreamFixtures ==
  {f \in [opponent : UpstreamOpponents, start : UpstreamStarts] :
     f.opponent = <<"D", "u", "k", "e">> \/ f.start.hour = 17}

\* A game as the API holds it.
UpstreamGames ==
  {[opponent |-> f.opponent, start |-> f.start,
    at_home |-> f.opponent = <<"D", "u", "k", "e">>, state |-> state] :
     f \in UpstreamFixtures,
     state \in {[status |-> "scheduled", uk |-> 0, opp |-> 0],
                [status |-> "final", uk |-> 78, opp |-> 65]}}

\* The score the API reports when a game has ended.
FinalState == [status |-> "final", uk |-> 65, opp |-> 78]

\* The response of /games as fetch_schedule.py reads it.
RawView(games) ==
  [i \in 1..Len(games) |->
     RawGame(games[i].opponent, Some(games[i].start), games[i].state,
             games[i].at_home)]

\* update-schedule-results.fetch_kentucky_games, lines 66-95: the game
\* list built from the games of the client.
KentuckyGames(games) ==
  [i \in 1..Len(games) |->
     LET game == games[i]
     IN [opponent |-> game.opponent,
         date |-> [day |-> DayNumber(game.start), secs |-> game.start.hour * 3600],
         result |-> IF game.state.status = "final"
                    THEN IF game.state.uk > game.state.opp
                         THEN ResultText("W", game.state.uk, game.state.opp)
                         ELSE ResultText("L", game.state.uk, game.state.opp)
                    ELSE "TBD"]]

\* The games of the client as update-basketball-data.py reads their
\* attributes.
ClientGames(games) ==
  [i \in 1..Len(games) |->
     LET game == games[i]
         home_team == IF game.at_home THEN KENTUCKY_TEAM ELSE JoinChars(game.opponent)
         away_team == IF game.at_home THEN JoinChars(game.opponent) ELSE KENTUCKY_TEAM
     IN IF game.state.status = "final"
        THEN [game_date |-> DayNumber(game.start), completed |-> TRUE,
              home_team |-> home_team, away_team |-> away_team,
              home_score |-> IF game.at_home THEN game.state.uk ELSE game.state.opp,
              away_score |-> IF game.at_home THEN game.state.opp ELSE game.state.uk]
        ELSE [game_date |-> DayNumber(game.start), completed |-> FALSE,
              home_team |-> home_team, away_team |-> away_team]]

\* The entry of the schedule file that save_schedule dumps for game_obj;
\* of its display fields the model keeps 'opponentRank'.
SavedEntry(game_obj) ==
  StrDict([date |-> PStr([fmt |-> "%b %d", day |-> TextDay(game_obj.date)]),
           opponent |-> PStr(game_obj.opponent),
           result |-> PStr(game_obj.result),
           opponentRank |-> PInt(0),
           exh |-> PBool(FALSE)])

\* The hand-kept schedule files the runs start from.
InitialSchedules ==
  {<<ScheduleEntry("exhibition"), ScheduleEntry("tbd")>>,
   <<ScheduleEntry("played"), ScheduleEntry("tbd")>>,
   <<ScheduleEntry("tbd"), ScheduleEntry("no_result")>>}

Scripts ==
  {"fetch_schedule", "update-schedule-results", "update-basketball-data",
   "update-team-stats"}

InitRuns ==
  /\ \E games \in SeqsUpTo(UpstreamGames, MaxUpstreamGames),
        entries \in InitialSchedules :
       LET file == FileJson(JsonDump(PList(entries)))
           update_file == FileJson(JsonDump(UpdateDoc("absent")))
       IN rn = [pc |-> "ready", games |-> games,
                file |-> file, update_file |-> update_file, writer |-> "hand",
                ran |-> "none", fetched |-> FALSE, ok |-> FALSE, wrote |-> FALSE,
                fresh |-> FALSE, repeat |-> FALSE,
                before |-> [file |-> file, update_file |-> update_file,
                            writer |-> "hand", games |-> games, wrote |-> FALSE]]
  /\ rk = Idle /\ ms = Idle /\ nm = Idle /\ mt = Idle /\ ps = Idle /\ gl = Idle
  /\ up = Idle /\ ft = Idle /\ pl = Idle /\ sc = Idle

\* The state after a run of script that fetched or not, left the two files
\* as given, wrote the schedule file or not and ended well or not.
AfterRun(script, fetched, file, update_file, wrote, ok) ==
  [rn EXCEPT
     !.ran = script, !.fetched = fetched, !.ok = ok, !.wrote = wrote,
     !.file = file, !.update_file = update_file,
     !.writer = IF wrote THEN script ELSE @,
     !.fresh = TRUE,
     !.repeat = rn.ran = script /\ rn.fresh /\ rn.fetched /\ fetched,
     !.before = [file |-> rn.file, update_file |-> rn.update_file,
                 writer |-> rn.writer, games |-> rn.games, wrote |-> rn.wrote]]

\* fetch_schedule.py: main, for the season whose file is
\* data/2025-schedule.json.
FetchScheduleRun ==
  /\ rn.pc = "ready"
  /\ \E fetched \in BOOLEAN :
       LET raw_data == RawView(rn.games)
           processed == process_schedule(raw_data)
       IN IF ~fetched \/ raw_data = <<>> \/ processed.kind = "raised"
          THEN rn' = AfterRun("fetch_schedule", fetched /\ raw_data # <<>>,
                              rn.file, rn.update_file, FALSE, FALSE)
          ELSE rn' = AfterRun("fetch_schedule", TRUE,
                        FileJson(JsonDump(PList(
                          [i \in 1..Len(processed.games) |->
                             SavedEntry(processed.games[i])]))),
                        rn.update_file, TRUE, TRUE)
  /\ UNCHANGED <<rk, ms, nm, mt, ps, gl, up, ft, pl, sc>>

\* update-schedule-results.py: main.
ScheduleResultsRun ==
  /\ rn.pc = "ready"
  /\ \E fetched \in BOOLEAN :
       LET api_games == IF fetched THEN KentuckyGames(rn.games) ELSE <<>>
           result == update_schedule_results_file(rn.file, api_games)
       IN IF api_games = <<>>
          THEN rn' = AfterRun("update-schedule-results", FALSE,
                              rn.file, rn.update_file, FALSE, FALSE)
          ELSE rn' = AfterRun("update-schedule-results", TRUE,
                              result.file, rn.update_file, result.wrote, result.ok)
  /\ UNCHANGED <<rk, ms, nm, mt, ps, gl, up, ft, pl, sc>>

\* update-basketball-data.py: main, the API answering with its ratings,
\* stats and games, or with none of them.
BasketballDataRun ==
  /\ rn.pc = "ready"
  /\ \E fetched \in BOOLEAN :
       LET games == IF fetched /\ rn.games # <<>>
                    THEN Some(ClientGames(rn.games)) ELSE None
           statsResult == update_stats_file(rn.update_file, <<Stat("all")>>,
                                            <<Rating("ranked")>>)
           scheduleResult == update_schedule_file(rn.file, Val(games))
       IN rn' = AfterRun("update-basketball-data", ~IsNone(games),
                         IF IsNone(games) THEN rn.file ELSE scheduleResult.file,
                         IF fetched THEN statsResult.file ELSE rn.update_file,
                         ~IsNone(games) /\ scheduleResult.wrote,
                         fetched /\ statsResult.ok /\ ~IsNone(games)
                           /\ scheduleResult.ok)
  /\ UNCHANGED <<rk, ms, nm, mt, ps, gl, up, ft, pl, sc>>

\* update-team-stats.py: main.
TeamStatsRun ==
  /\ rn.pc = "ready"
  /\ \E fetched \in BOOLEAN :
       LET result == update_json_file(rn.update_file, NewStats("two"))
       IN IF ~fetched
          THEN rn' = AfterRun("update-team-stats", FALSE, rn.file, rn.update_file,
                              FALSE, FALSE)
          ELSE rn' = AfterRun("update-team-stats", TRUE, rn.file, result.file,
                              FALSE, result.ok)
  /\ UNCHANGED <<rk, ms, nm, mt, ps, gl, up, ft, pl, sc>>

\* A scheduled game ends: the API reports it final, with its points.
GameGoesFinal ==
  /\ rn.pc = "ready"
  /\ \E i \in 1..Len(rn.games) :
       /\ rn.games[i].state.status # "final"
       /\ rn' = [rn EXCEPT !.games[i].state = FinalState, !.fresh = FALSE]
  /\ UNCHANGED <<rk, ms, nm, mt, ps, gl, up, ft, pl, sc>>

NextRuns ==
  \/ FetchScheduleRun
  \/ ScheduleResultsRun
  \/ BasketballDataRun
  \/ TeamStatsRun
  \/ GameGoesFinal

SpecRuns == InitRuns /\ [][NextRuns]_vars

\* The entries of the schedule file before and after the last run.
EntriesBefore == JsonLoad(rn.before.file.data).items

EntriesAfter == JsonLoad(rn.file.data).items

\* The schedule updaters, and the three updaters whose reruns the site
\* relies on.
ScheduleUpdaters == {"update-schedule-results", "update-basketball-data"}

Updaters == ScheduleUpdaters \cup {"update-team-stats"}

\* The API game begins within a day of the midnight that opens the day the
\* entry's date names.
WithinOneDay(game, entry) ==
  Abs((DayNumber(game.start) - DictGet(entry, "date").s.day) * 86400
        + game.start.hour * 3600) <= 86400

\* The result text of an API game that is final.
FinalResult(game) ==
  IF game.state.uk > game.state.opp
  THEN ResultText("W", game.state.uk, game.state.opp)
  ELSE ResultText("L", game.state.uk, game.state.opp)

\* The API games, at the time of the last run, that match the entry under
\* update-schedule-results.py: same normalized opponent, date within a day.
MatchingGames(entry) ==
  {k \in 1..Len(rn.before.games) :
     /\ Lower(normalize_opponent_name(rn.before.games[k].opponent))
          = Lower(normalize_opponent_name(DictGet(entry, "opponent").s))
     /\ WithinOneDay(rn.before.games[k], entry)}

\* The entry carries 'exh': true.
MarkedExhibition(entry) ==
  DictHas(entry, "exh") /\ DictGet(entry, "exh") = PBool(TRUE)

\* The entry is not an exhibition and holds the result 'TBD'.
AwaitsResult(entry) ==
  /\ ~MarkedExhibition(entry)
  /\ DictHas(entry, "result") /\ DictGet(entry, "result") = PStr("TBD")

\* C21: a non-exhibition entry whose result is 'TBD' is overwritten once
\* its game is final: when the API reports the matching game (same
\* normalized opponent, date within one day) as final, a run of
\* update-schedule-results that fetched the games and updated the file
\* without error leaves the entry with that game's 'W x-y' or 'L x-y'.
C21_FinalGameOverwritesTbd ==
  (rn.ran = "update-schedule-results" /\ rn.fetched /\ rn.ok) =>
    \A i \in 1..Len(EntriesBefore) :
      LET entry == EntriesBefore[i]
          matching == MatchingGames(entry)
      IN (/\ AwaitsResult(entry)
          /\ matching # {}
          /\ \A k \in matching : rn.before.games[k].state.status = "final") =>
           \E k \in matching :
             DictGet(EntriesAfter[i], "result")
               = PStr(FinalResult(rn.before.games[k]))

\* C22: a rerun changes nothing and no run appends: when an updater runs a
\* second time, right after its first run and with the API unchanged, the
\* schedule file and update.json keep the content the first run left, and
\* after any run of an updater the schedule list is as long as before.
C22_RerunChangesNothing ==
  rn.ran \in Updaters =>
    /\ Len(EntriesAfter) = Len(EntriesBefore)
    /\ rn.repeat =>
         /\ rn.file = rn.before.file
         /\ rn.update_file = rn.before.update_file

\* update-schedule-results ran twice on the same API games, and its first
\* run had written a result.
C22_Witness ==
  /\ rn.ran = "update-schedule-results" /\ rn.repeat /\ rn.ok
  /\ rn.before.wrote /\ rn.before.writer = "update-schedule-results"
  /\ \E i \in 1..Len(EntriesAfter) :
       DictGet(EntriesAfter[i], "result") = PStr("W 78-65")

\* C27: update-basketball-data.update_schedule_file writes a result into an
\* entry only from an API game that matches it on both criteria, the
\* normalized opponent and the date within the tolerance: a game that only
\* shares the entry's date never supplies the result.
C27_ResultOnlyFromMatchingGame ==
  rn.ran = "update-basketball-data" =>
    /\ Len(EntriesAfter) = Len(EntriesBefore)
    /\ \A i \in 1..Len(EntriesBefore) :
         EntriesAfter[i] # EntriesBefore[i] =>
           \E k \in 1..Len(rn.before.games) :
             LET game == rn.before.games[k]
             IN /\ normalize_opponent_name_data(game.opponent)
                     = normalize_opponent_name_data(
                         DictGet(EntriesBefore[i], "opponent").s)
                /\ WithinOneDay(game, EntriesBefore[i])
                /\ DictGet(EntriesAfter[i], "result") = PStr(FinalResult(game))

\* C29: update-schedule-results.update_schedule_file leaves an exhibition
\* entry and an entry whose result is not 'TBD' as they are, changes no
\* field but 'result', keeps the number and the order of the entries, and
\* writes the file only when a result changed; so an entry that holds a
\* final result is not altered by a later run.
C29_OnlyTbdResultsChange ==
  rn.ran = "update-schedule-results" =>
    /\ Len(EntriesAfter) = Len(EntriesBefore)
    /\ \A i \in 1..Len(EntriesBefore) :
         LET old == EntriesBefore[i]
             new == EntriesAfter[i]
         IN /\ (MarkedExhibition(old)
                  \/ (DictHas(old, "result") /\ DictGet(old, "result") # PStr("TBD")))
                 => new = old
            /\ new # old =>
                 /\ DictHas(old, "result")
                 /\ new = DictPut(old, "result", DictGet(new, "result"))
    /\ rn.wrote => \E i \in 1..Len(EntriesBefore) :
                     DictGet(EntriesAfter[i], "result")
                       # DictGet(EntriesBefore[i], "result")
    /\ ~rn.wrote => rn.file = rn.before.file

\* A run wrote the result of the Duke game into the entry that awaited it,
\* beside an exhibition entry against Duke on the same day.
C29_Witness ==
  /\ rn.ran = "update-schedule-results" /\ rn.wrote
  /\ Len(EntriesBefore) = 2
  /\ MarkedExhibition(EntriesBefore[1]) /\ MatchingGames(EntriesBefore[1]) # {}
  /\ EntriesAfter[1] = EntriesBefore[1]
  /\ EntriesAfter[2] # EntriesBefore[2]

\* C30: on a schedule file written by fetch_schedule.py, whose dates name
\* no year, a run of either schedule updater changes no entry and does not
\* write the file, whatever games the API holds.
C30_FetchedFileNeverUpdated ==
  (rn.ran \in ScheduleUpdaters /\ rn.before.writer = "fetch_schedule") =>
    /\ rn.file = rn.before.file
    /\ ~rn.wrote

\* update-schedule-results ran on the file of fetch_schedule.py while the
\* API held, as final, the game of an entry that awaits its result.
C30_Witness ==
  /\ rn.ran = "update-schedule-results" /\ rn.fetched
  /\ rn.before.writer = "fetch_schedule"
  /\ \E i \in 1..Len(EntriesBefore) :
       /\ AwaitsResult(EntriesBefore[i])
       /\ \E k \in MatchingGames(EntriesBefore[i]) :
            rn.before.games[k].state.status = "final"
  /\ rn.file = rn.before.file
====
